---- MODULE Spec2Model ----
(***************************************************************************)
(* Department request tracker: the three tables of the schema, their      *)
(* row-level-security policies and the BEFORE UPDATE triggers, as created  *)
(* by supabase/migrations/20251106123731_create_requests_table.sql and     *)
(* 20251106123807_add_user_roles_insert_policy.sql.                        *)
(*                                                                         *)
(* Every action is one SQL statement issued by an authenticated caller     *)
(* (auth.uid() = caller).  A statement is atomic: either its row is        *)
(* written or the tables are left as they were.  The payloads enumerated   *)
(* satisfy the NOT NULL constraints of the tables and never write a        *)
(* primary key; the foreign key of request_comments.request_id, the CHECK  *)
(* and the UNIQUE constraint of user_roles are modelled.                   *)
(***************************************************************************)
EXTENDS Integers, FiniteSets, Sequences, Bags, TLC

\* ---- bounds ----
MaxRequests == 1
MaxComments == 1
MaxTime == 2
MaxLookups == 2
MaxLoads == 2

\* ---- domains ----
Users == {"u1", "u2"}
NULL == -1
Time == 0..MaxTime
TimeOrNull == Time \cup {NULL}
STATUSES == {"Received", "In Progress", "Resolved"}
ROLES == {"submitter", "handler"}
CATEGORIES ==
  {"IT and Technical Support", "Facilities and Maintenance", "Equipment and Furniture",
   "Safety and Fire Protection", "HR and Staff Matters", "Other"}
PRIORITIES == {"Critical", "High", "Medium", "Low"}
RoleInputs == ROLES \cup {"admin"}
UNSET == "unset"
UNSET_T == -2
NoUser == "none"
NoRole == "null"

VARIABLES
  requests,          \* table requests: a set of rows
  request_comments,  \* table request_comments: a set of rows
  user_roles,        \* table user_roles: a set of rows
  now,               \* the database clock, now()
  nextRequestId,     \* gen_random_uuid() for requests: ids are never reused
  nextCommentId,     \* gen_random_uuid() for request_comments
  session,           \* the identity provider's current session user of the browser
  user,              \* AuthProvider state: user
  userRole,          \* AuthProvider state: userRole
  loading,           \* AuthProvider state: loading
  pendingGetSession, \* the getSession() promise of AuthProvider's effect is not yet resolved
  lookups,           \* the fetchUserRole calls started so far, in flight or finished
  form,              \* NewRequestForm state
  panel,             \* RequestDetails state, one panel per signed-in handler's browser
  analysis,          \* the value the last call of analyzeRequest returned
  viewRequests,      \* the requests state of the view mounted in each user's browser
  loads,             \* the bag of list re-queries of the views, notified or in flight
  handlerView,       \* HandlerView state: the ordered list, the filters, filteredRequests
  signup             \* the position and the outcome of a call of signUp

dbVars == <<requests, request_comments, user_roles, now, nextRequestId, nextCommentId>>
authVars == <<session, user, userRole, loading, pendingGetSession, lookups>>
liveVars == <<loads, handlerView, signup>>
clientVars == <<session, user, userRole, loading, pendingGetSession, lookups, form, panel, analysis, viewRequests,
                loads, handlerView, signup>>
vars == <<requests, request_comments, user_roles, now, nextRequestId, nextCommentId,
          session, user, userRole, loading, pendingGetSession, lookups, form, panel, analysis, viewRequests,
          loads, handlerView, signup>>

\* ---- rows ----
RequestRow(id, submitter_id, status, created_at, updated_at, resolved_at) ==
  [id |-> id, title |-> <<"t">>, description |-> <<"d">>, category |-> "Other",
   priority |-> "Medium", status |-> status, submitter_id |-> submitter_id,
   submitter_name |-> submitter_id, assigned_unit |-> "", assigned_handler |-> "",
   ai_response |-> <<>>, created_at |-> created_at, updated_at |-> updated_at,
   resolved_at |-> resolved_at, deadline |-> NULL]

CommentRow(id, request_id, user_id, created_at) ==
  [id |-> id, request_id |-> request_id, user_id |-> user_id,
   user_name |-> user_id, comment |-> "c", created_at |-> created_at]

RoleRow(user_id, role) == [user_id |-> user_id, role |-> role]

\* ---- policies of user_roles ----
\* mutation: the SELECT policy of user_roles lets every caller read every row
Mut_RolesReadableByAll(uid, row) == row.user_id \in Users

UsersCanViewOwnRoles(uid, row) == uid = row.user_id

UsersCanInsertOwnRole(uid, row) == uid = row.user_id

\* RLS is enabled and no UPDATE or DELETE policy exists on user_roles
UserRolesUpdatePolicy(uid, row) == FALSE

UserRolesDeletePolicy(uid, row) == FALSE

SelectUserRoles(uid) == {ur \in user_roles : UsersCanViewOwnRoles(uid, ur)}

\* EXISTS (SELECT 1 FROM user_roles WHERE user_id = auth.uid() AND role = 'handler'),
\* the sub-select running under the caller's own SELECT policy on user_roles
ExistsHandlerRole(uid) ==
  \E ur \in SelectUserRoles(uid) : ur.user_id = uid /\ ur.role = "handler"

\* ---- policies of requests ----
\* mutation: the INSERT policy of requests does not compare submitter_id with the caller
Mut_CreateRequestsForAnyone(uid, row) == row.submitter_id \in Users

UsersCanCreateRequests(uid, row) == uid = row.submitter_id

SubmittersCanViewOwnRequests(uid, row) == uid = row.submitter_id

\* mutation: any role row, not only a handler row, opens every request
Mut_AnyRoleViewsAllRequests(uid, row) == \E ur \in SelectUserRoles(uid) : ur.user_id = uid

HandlersCanViewAllRequests(uid, row) == ExistsHandlerRole(uid)

HandlersCanUpdateRequestsUsing(uid, row) == ExistsHandlerRole(uid)

HandlersCanUpdateRequestsWithCheck(uid, row) == ExistsHandlerRole(uid)

\* mutation: the submitter of a request may delete it too
Mut_OwnersCanDeleteRequests(uid, row) == ExistsHandlerRole(uid) \/ uid = row.submitter_id

HandlersCanDeleteRequests(uid, row) == ExistsHandlerRole(uid)

\* permissive policies of one command are OR-ed
RequestsSelectPolicy(uid, row) ==
  SubmittersCanViewOwnRequests(uid, row) \/ HandlersCanViewAllRequests(uid, row)

SelectRequests(uid) == {r \in requests : RequestsSelectPolicy(uid, r)}

\* ---- policies of request_comments ----
\* EXISTS (SELECT 1 FROM requests WHERE requests.id = request_id
\*         AND requests.submitter_id = auth.uid())
ExistsOwnParentRequest(uid, request_id) ==
  \E r \in SelectRequests(uid) : r.id = request_id /\ r.submitter_id = uid

\* mutation: the INSERT policy of request_comments does not compare user_id with the caller
Mut_CreateCommentsAsAnyone(uid, row) ==
  ExistsOwnParentRequest(uid, row.request_id) \/ ExistsHandlerRole(uid)

UsersCanCreateComments(uid, row) ==
  /\ uid = row.user_id
  /\ (ExistsOwnParentRequest(uid, row.request_id) \/ ExistsHandlerRole(uid))

\* mutation: a comment is visible to its author and to handlers
Mut_AuthorsViewComments(uid, row) == uid = row.user_id \/ ExistsHandlerRole(uid)

UsersCanViewComments(uid, row) ==
  ExistsOwnParentRequest(uid, row.request_id) \/ ExistsHandlerRole(uid)

\* RLS is enabled and no UPDATE or DELETE policy exists on request_comments
CommentsUpdatePolicy(uid, row) == FALSE

\* mutation: a DELETE policy lets the author of a comment delete it
Mut_AuthorsDeleteComments(uid, row) == uid = row.user_id

CommentsDeletePolicy(uid, row) == FALSE

SelectComments(uid) == {c \in request_comments : UsersCanViewComments(uid, c)}

\* ---- triggers of requests (BEFORE UPDATE, FOR EACH ROW) ----
update_updated_at_column(new) == [new EXCEPT !.updated_at = now]

\* mutation: the trigger stamps resolved_at only when the statement did not write it
Mut_ResolvedAtKeptFromStatement(new, old) ==
  IF new.status = "Resolved" /\ old.status # "Resolved"
    THEN [new EXCEPT !.resolved_at = IF @ = old.resolved_at THEN now ELSE @]
    ELSE IF new.status # "Resolved"
      THEN [new EXCEPT !.resolved_at = NULL]
      ELSE new
set_resolved_at(new, old) ==
  IF new.status = "Resolved" /\ old.status # "Resolved"
    THEN [new EXCEPT !.resolved_at = now]
    ELSE IF new.status # "Resolved"
      THEN [new EXCEPT !.resolved_at = NULL]
      ELSE new

\* mutation: the trigger update_resolved_at is missing
Mut_OnlyUpdatedAtTrigger(new, old) == update_updated_at_column(new)
\* both triggers, in the order of their names: update_requests_updated_at, update_resolved_at
BeforeUpdateTriggers(new, old) == set_resolved_at(update_updated_at_column(new), old)

\* ---- UPDATE requests SET ... : the columns a statement writes ----
NoPatch ==
  [status |-> UNSET, priority |-> UNSET, category |-> UNSET, assigned_unit |-> UNSET,
   assigned_handler |-> UNSET, submitter_id |-> UNSET, deadline |-> UNSET_T,
   updated_at |-> UNSET_T, resolved_at |-> UNSET_T]

Pick(value, unset, kept) == IF value = unset THEN kept ELSE value

ApplyPatch(row, patch) ==
  [row EXCEPT
     !.status = Pick(patch.status, UNSET, @),
     !.priority = Pick(patch.priority, UNSET, @),
     !.category = Pick(patch.category, UNSET, @),
     !.assigned_unit = Pick(patch.assigned_unit, UNSET, @),
     !.assigned_handler = Pick(patch.assigned_handler, UNSET, @),
     !.submitter_id = Pick(patch.submitter_id, UNSET, @),
     !.deadline = Pick(patch.deadline, UNSET_T, @),
     !.updated_at = Pick(patch.updated_at, UNSET_T, @),
     !.resolved_at = Pick(patch.resolved_at, UNSET_T, @)]

\* the SET lists enumerated for a statement sent straight to the database
SqlPatches ==
  {[NoPatch EXCEPT !.status = s] : s \in STATUSES}
    \cup {[NoPatch EXCEPT !.submitter_id = u] : u \in Users}
    \cup {[NoPatch EXCEPT !.resolved_at = NULL]}

\* ---- statements on requests: the rows each one writes ----
\* INSERT INTO requests: WITH CHECK of the INSERT policy on the new row
InsertRequestAccepted(caller, row) == UsersCanCreateRequests(caller, row)

RequestsAfterInsert(caller, row) ==
  IF InsertRequestAccepted(caller, row) THEN requests \cup {row} ELSE requests

\* mutation: the WHERE clause is ignored, every row the caller may update is a target
Mut_UpdateTargetsAnyId(caller, id) ==
  {r \in requests : /\ RequestsSelectPolicy(caller, r)
                    /\ HandlersCanUpdateRequestsUsing(caller, r)}
\* UPDATE requests ... WHERE id = id: the rows the caller may read and update
UpdateRequestTargets(caller, id) ==
  {r \in requests : /\ r.id = id
                     /\ RequestsSelectPolicy(caller, r)
                     /\ HandlersCanUpdateRequestsUsing(caller, r)}

UpdatedRow(r, patch) == BeforeUpdateTriggers(ApplyPatch(r, patch), r)

\* a new row failing WITH CHECK aborts the statement
UpdateRequestWritten(caller, id, patch) ==
  IF \A r \in UpdateRequestTargets(caller, id) :
       HandlersCanUpdateRequestsWithCheck(caller, UpdatedRow(r, patch))
    THEN UpdateRequestTargets(caller, id)
    ELSE {}

RequestsAfterUpdate(caller, id, patch) ==
  (requests \ UpdateRequestWritten(caller, id, patch))
    \cup {UpdatedRow(r, patch) : r \in UpdateRequestWritten(caller, id, patch)}

\* DELETE FROM requests WHERE id = id: the rows the caller may read and delete
DeleteRequestTargets(caller, id) ==
  {r \in requests : /\ r.id = id
                     /\ RequestsSelectPolicy(caller, r)
                     /\ HandlersCanDeleteRequests(caller, r)}

\* request_comments.request_id REFERENCES requests(id) ON DELETE CASCADE
CommentsAfterCascade(deleted) ==
  {c \in request_comments : c.request_id \notin {r.id : r \in deleted}}

\* ---- statements on request_comments ----
\* the foreign key is checked against the table itself, not through the caller's policies
InsertCommentAccepted(caller, row) ==
  /\ UsersCanCreateComments(caller, row)
  /\ \E r \in requests : r.id = row.request_id

CommentsAfterInsert(caller, row) ==
  IF InsertCommentAccepted(caller, row) THEN request_comments \cup {row} ELSE request_comments

UpdateCommentTargets(caller, id) ==
  {c \in request_comments : /\ c.id = id
                             /\ UsersCanViewComments(caller, c)
                             /\ CommentsUpdatePolicy(caller, c)}

DeleteCommentTargets(caller, id) ==
  {c \in request_comments : /\ c.id = id
                             /\ UsersCanViewComments(caller, c)
                             /\ CommentsDeletePolicy(caller, c)}

\* ---- statements on user_roles ----
\* WITH CHECK of the INSERT policy, CHECK (role IN ('submitter','handler')), UNIQUE(user_id, role)
InsertRoleAccepted(caller, row) ==
  /\ UsersCanInsertOwnRole(caller, row)
  /\ row.role \in ROLES
  /\ row \notin user_roles

\* mutation: the role row is written before the policy is evaluated
Mut_RolesWrittenUnchecked(caller, row) == user_roles \cup {row}

RolesAfterInsert(caller, row) ==
  IF InsertRoleAccepted(caller, row) THEN user_roles \cup {row} ELSE user_roles

UpdateRoleTargets(caller, row) ==
  {ur \in user_roles : /\ ur = row
                        /\ UsersCanViewOwnRoles(caller, ur)
                        /\ UserRolesUpdatePolicy(caller, ur)}

DeleteRoleTargets(caller, row) ==
  {ur \in user_roles : /\ ur = row
                        /\ UsersCanViewOwnRoles(caller, ur)
                        /\ UserRolesDeletePolicy(caller, ur)}

\* ---- the browser before the application is mounted ----
\* NewRequestForm is not mounted: it has no state
NoForm == [open |-> FALSE]

\* NewRequestForm as mounted; pc is the position of handleSubmit: "idle", "sent" (the
\* insert is on its way), "answered" (the database has executed it); payload holds the
\* object being inserted
NewForm ==
  [open |-> TRUE, title |-> <<>>, description |-> <<>>, manualCategory |-> "",
   manualPriority |-> "", loading |-> FALSE, error |-> "",
   pc |-> "idle", payload |-> <<>>, insertError |-> FALSE]

\* RequestDetails is not mounted: it has no state
NoPanel == [open |-> FALSE]

\* RequestDetails as mounted for the row request; pc is the position of
\* handleUpdateRequest: "idle", "sent" (the update is on its way), "answered";
\* patch holds the object being sent
NewPanel(request, isHandler) ==
  [open |-> TRUE, isHandler |-> isHandler, request |-> request, editedRequest |-> request,
   editMode |-> FALSE, loading |-> FALSE, pc |-> "idle", patch |-> <<>>,
   updateError |-> FALSE]

NoAnalysis == [category |-> "", priority |-> "", aiResponse |-> <<>>, assignedUnit |-> ""]

\* HandlerView is not mounted: it has no state
NoHandlerView == [mounted |-> FALSE]

\* no call of signUp is under way
NoSignUp == [pc |-> "idle"]

\* no list re-query has been started, HandlerView is not mounted, nobody signs up
InitLive ==
  /\ loads = EmptyBag
  /\ handlerView = NoHandlerView
  /\ signup = NoSignUp

InitClient ==
  /\ session = NoUser
  /\ user = NoUser
  /\ userRole = NoRole
  /\ loading = TRUE
  /\ pendingGetSession = TRUE
  /\ lookups = <<>>
  /\ form = NoForm
  /\ panel = [u \in Users |-> NoPanel]
  /\ analysis = NoAnalysis
  /\ viewRequests = [u \in Users |-> {}]
  /\ InitLive

\* ---- the database ----
Init ==
  /\ requests = {}
  /\ request_comments = {}
  /\ user_roles = {}
  /\ now = 0
  /\ nextRequestId = 1
  /\ nextCommentId = 1
  /\ InitClient

\* INSERT INTO requests (...) VALUES (...): created_at and updated_at take their default
\* now(); resolved_at is NULL unless the statement names it
InsertRequest(caller, submitter_id, status, resolved_at) ==
  /\ nextRequestId <= MaxRequests
  /\ LET row == RequestRow(nextRequestId, submitter_id, status, now, now, resolved_at)
     IN /\ requests' = RequestsAfterInsert(caller, row)
        /\ nextRequestId' = IF InsertRequestAccepted(caller, row)
                              THEN nextRequestId + 1 ELSE nextRequestId
  /\ UNCHANGED <<request_comments, user_roles, now, nextCommentId>>

UpdateRequest(caller, id, patch) ==
  /\ requests' = RequestsAfterUpdate(caller, id, patch)
  /\ UNCHANGED <<request_comments, user_roles, now, nextRequestId, nextCommentId>>

DeleteRequest(caller, id) ==
  /\ requests' = requests \ DeleteRequestTargets(caller, id)
  /\ request_comments' = CommentsAfterCascade(DeleteRequestTargets(caller, id))
  /\ UNCHANGED <<user_roles, now, nextRequestId, nextCommentId>>

\* INSERT INTO request_comments (request_id, user_id, user_name, comment)
InsertComment(caller, request_id, user_id) ==
  /\ nextCommentId <= MaxComments
  /\ LET row == CommentRow(nextCommentId, request_id, user_id, now)
     IN /\ request_comments' = CommentsAfterInsert(caller, row)
        /\ nextCommentId' = IF InsertCommentAccepted(caller, row)
                              THEN nextCommentId + 1 ELSE nextCommentId
  /\ UNCHANGED <<requests, user_roles, now, nextRequestId>>

\* UPDATE request_comments SET comment = text WHERE id = id
UpdateComment(caller, id, text) ==
  /\ request_comments' =
       (request_comments \ UpdateCommentTargets(caller, id))
         \cup {[c EXCEPT !.comment = text] : c \in UpdateCommentTargets(caller, id)}
  /\ UNCHANGED <<requests, user_roles, now, nextRequestId, nextCommentId>>

\* DELETE FROM request_comments WHERE id = id
DeleteComment(caller, id) ==
  /\ request_comments' = request_comments \ DeleteCommentTargets(caller, id)
  /\ UNCHANGED <<requests, user_roles, now, nextRequestId, nextCommentId>>

\* INSERT INTO user_roles (user_id, role)
InsertRole(caller, user_id, role) ==
  /\ user_roles' = RolesAfterInsert(caller, RoleRow(user_id, role))
  /\ UNCHANGED <<requests, request_comments, now, nextRequestId, nextCommentId>>

\* UPDATE user_roles SET role = role WHERE user_id = row.user_id AND role = row.role
UpdateRole(caller, row, role) ==
  /\ user_roles' =
       (user_roles \ UpdateRoleTargets(caller, row))
         \cup {[ur EXCEPT !.role = role] : ur \in UpdateRoleTargets(caller, row)}
  /\ UNCHANGED <<requests, request_comments, now, nextRequestId, nextCommentId>>

\* DELETE FROM user_roles WHERE user_id = row.user_id AND role = row.role
DeleteRole(caller, row) ==
  /\ user_roles' = user_roles \ DeleteRoleTargets(caller, row)
  /\ UNCHANGED <<requests, request_comments, now, nextRequestId, nextCommentId>>

\* the ids a statement may name: those of the stored rows, and one that names no row
RequestIds == {r.id : r \in requests} \cup {nextRequestId}

Next ==
  \/ \E caller \in Users, submitter_id \in Users, status \in STATUSES :
       InsertRequest(caller, submitter_id, status, NULL) /\ UNCHANGED clientVars
  \/ \E caller \in Users, r \in requests, patch \in SqlPatches :
       UpdateRequest(caller, r.id, patch) /\ UNCHANGED clientVars
  \/ \E caller \in Users, r \in requests :
       DeleteRequest(caller, r.id) /\ UNCHANGED clientVars
  \/ \E caller \in Users, request_id \in RequestIds, user_id \in Users :
       InsertComment(caller, request_id, user_id) /\ UNCHANGED clientVars
  \/ \E caller \in Users, c \in request_comments :
       UpdateComment(caller, c.id, "edited") /\ UNCHANGED clientVars
  \/ \E caller \in Users, c \in request_comments :
       DeleteComment(caller, c.id) /\ UNCHANGED clientVars
  \/ \E caller \in Users, user_id \in Users, role \in RoleInputs :
       InsertRole(caller, user_id, role) /\ UNCHANGED clientVars
  \/ \E caller \in Users, row \in user_roles :
       \E role \in ROLES \ {row.role} :
         UpdateRole(caller, row, role) /\ UNCHANGED clientVars
  \/ \E caller \in Users, row \in user_roles :
       DeleteRole(caller, row) /\ UNCHANGED clientVars

Spec == Init /\ [][Next]_vars

\* ---- the requests table over time: the clock advances between statements ----
\* the SET lists enumerated over status and the two trigger-maintained columns
TimePatches ==
  {[NoPatch EXCEPT !.status = s, !.resolved_at = r] :
     s \in STATUSES \cup {UNSET}, r \in TimeOrNull \cup {UNSET_T}}
    \cup {[NoPatch EXCEPT !.updated_at = t] : t \in Time}

\* a handler has signed up; the tables are empty otherwise
InitTime ==
  /\ requests = {}
  /\ request_comments = {}
  /\ user_roles = {RoleRow("u1", "handler")}
  /\ now = 0
  /\ nextRequestId = 1
  /\ nextCommentId = 1
  /\ InitClient

\* the clock of the database never runs backwards
Tick ==
  /\ now < MaxTime
  /\ now' = now + 1
  /\ UNCHANGED <<requests, request_comments, user_roles, nextRequestId, nextCommentId>>

\* INSERT INTO requests naming updated_at and resolved_at besides the required columns
InsertRequestAt(caller, status, updated_at, resolved_at) ==
  /\ nextRequestId <= MaxRequests
  /\ LET row == RequestRow(nextRequestId, caller, status, now, updated_at, resolved_at)
     IN /\ requests' = RequestsAfterInsert(caller, row)
        /\ nextRequestId' = IF InsertRequestAccepted(caller, row)
                              THEN nextRequestId + 1 ELSE nextRequestId
  /\ UNCHANGED <<request_comments, user_roles, now, nextCommentId>>

NextTime ==
  \/ Tick /\ UNCHANGED clientVars
  \/ \E caller \in Users, status \in STATUSES, updated_at \in Time :
       InsertRequestAt(caller, status, updated_at, NULL) /\ UNCHANGED clientVars
  \/ \E caller \in Users, r \in requests, patch \in TimePatches :
       UpdateRequest(caller, r.id, patch) /\ UNCHANGED clientVars

SpecTime == InitTime /\ [][NextTime]_vars

\* ---- AuthProvider: the session, the role lookup and the view AppContent renders ----
\* .from('user_roles').select('role').eq('user_id', userId), under the session's token
RoleLookupRows(uid, userId) == {r \in SelectUserRoles(uid) : r.user_id = userId}

\* .maybeSingle(): the row when there is exactly one, null when there is none,
\* an error without data when there are several
maybeSingle(rows) ==
  IF Cardinality(rows) = 1
    THEN [data |-> (CHOOSE r \in rows : TRUE).role, error |-> FALSE]
    ELSE [data |-> NoRole, error |-> Cardinality(rows) > 1]

\* mutation: an unresolved role is kept as null
Mut_NoRoleStaysNull(data) == data
\* data?.role ?? 'submitter'
RoleOrSubmitter(data) == IF data = NoRole THEN "submitter" ELSE data

\* the call of fetchUserRole up to its await: the query leaves the browser
fetchUserRole(userId) ==
  lookups' = Append(lookups, [userId |-> userId, stage |-> "sent", rows |-> 0, data |-> NoRole])

\* AppContent: the spinner, the sign-in form, or one of the two views
AppContent ==
  IF loading THEN "Loading"
  ELSE IF user = NoUser THEN "Auth"
  ELSE IF userRole = "handler" THEN "HandlerView" ELSE "SubmitterView"

\* a browser with a session, or without one, mounts the application
InitAuth ==
  /\ requests = {}
  /\ request_comments = {}
  /\ user_roles = {}
  /\ now = 0
  /\ nextRequestId = 1
  /\ nextCommentId = 1
  /\ session \in Users \cup {NoUser}
  /\ user = NoUser
  /\ userRole = NoRole
  /\ loading = TRUE
  /\ pendingGetSession = TRUE
  /\ lookups = <<>>
  /\ form = NoForm
  /\ panel = [u \in Users |-> NoPanel]
  /\ analysis = NoAnalysis
  /\ viewRequests = [u \in Users |-> {}]
  /\ InitLive

\* supabase.auth.getSession().then(...)
GetSessionResolved ==
  /\ pendingGetSession
  /\ pendingGetSession' = FALSE
  /\ user' = session
  /\ IF session # NoUser
       THEN /\ Len(lookups) < MaxLookups
            /\ fetchUserRole(session)
            /\ UNCHANGED loading
       ELSE /\ loading' = FALSE
            /\ UNCHANGED lookups
  /\ UNCHANGED <<session, userRole, form, panel, analysis, viewRequests>>
  /\ UNCHANGED dbVars

\* the session changes to s (sign-in, sign-out, refresh) and the onAuthStateChange
\* callback runs up to its await
AuthStateChange(s) ==
  /\ session' = s
  /\ user' = s
  /\ IF s # NoUser
       THEN /\ Len(lookups) < MaxLookups
            /\ fetchUserRole(s)
            /\ UNCHANGED <<userRole, loading>>
       ELSE /\ userRole' = NoRole
            /\ loading' = FALSE
            /\ UNCHANGED lookups
  /\ UNCHANGED <<pendingGetSession, form, panel, analysis, viewRequests>>
  /\ UNCHANGED dbVars

\* the database answers the i-th role lookup; the request carries the token of the
\* session it was started under, which is the session of userId
fetchUserRole_Query(i) ==
  /\ lookups[i].stage = "sent"
  /\ LET rows == RoleLookupRows(lookups[i].userId, lookups[i].userId)
     IN lookups' = [lookups EXCEPT ![i].stage = "answered",
                                   ![i].rows = Cardinality(rows),
                                   ![i].data = maybeSingle(rows).data]
  /\ UNCHANGED <<session, user, userRole, loading, pendingGetSession, form, panel, analysis, viewRequests>>
  /\ UNCHANGED dbVars

\* fetchUserRole after its await: setUserRole(data?.role ?? 'submitter'); setLoading(false)
fetchUserRole_Return(i) ==
  /\ lookups[i].stage = "answered"
  /\ userRole' = RoleOrSubmitter(lookups[i].data)
  /\ loading' = FALSE
  /\ lookups' = [lookups EXCEPT ![i].stage = "done"]
  /\ UNCHANGED <<session, user, pendingGetSession, form, panel, analysis, viewRequests>>
  /\ UNCHANGED dbVars

NextAuth ==
  \/ GetSessionResolved /\ UNCHANGED liveVars
  \/ \E s \in Users \cup {NoUser} : AuthStateChange(s) /\ UNCHANGED liveVars
  \/ \E i \in DOMAIN lookups : fetchUserRole_Query(i) /\ UNCHANGED liveVars
  \/ \E i \in DOMAIN lookups : fetchUserRole_Return(i) /\ UNCHANGED liveVars
  \/ \E u \in Users, role \in ROLES : InsertRole(u, u, role) /\ UNCHANGED clientVars

SpecAuth == InitAuth /\ [][NextAuth]_vars

\* ---- the classifier: analyzeRequest and its helpers ----
\* a text is a sequence of characters
UPPER ==
  <<"A", "B", "C", "D", "E", "F", "G", "H", "I", "J", "K", "L", "M",
    "N", "O", "P", "Q", "R", "S", "T", "U", "V", "W", "X", "Y", "Z">>
LOWER ==
  <<"a", "b", "c", "d", "e", "f", "g", "h", "i", "j", "k", "l", "m",
    "n", "o", "p", "q", "r", "s", "t", "u", "v", "w", "x", "y", "z">>

\* String.prototype.toLowerCase
toLowerCase(text) ==
  [i \in 1..Len(text) |->
     IF \E k \in 1..26 : UPPER[k] = text[i]
       THEN LOWER[CHOOSE k \in 1..26 : UPPER[k] = text[i]]
       ELSE text[i]]

\* text.match(/k1|k2|.../i) is not null: some alternative occurs somewhere in the text,
\* letters compared without regard to case
match(text, keywords) ==
  LET lowered == toLowerCase(text)
  IN \E kw \in keywords : \E i \in 1..Len(lowered) :
       /\ i + Len(kw) - 1 <= Len(lowered)
       /\ \A j \in 1..Len(kw) : lowered[i + j - 1] = kw[j]

\* /computer|laptop|software|network|internet|wifi|password|email|printer|it|technical|system/i
IT_KEYWORDS ==
  {<<"c", "o", "m", "p", "u", "t", "e", "r">>,
   <<"l", "a", "p", "t", "o", "p">>,
   <<"s", "o", "f", "t", "w", "a", "r", "e">>,
   <<"n", "e", "t", "w", "o", "r", "k">>,
   <<"i", "n", "t", "e", "r", "n", "e", "t">>,
   <<"w", "i", "f", "i">>,
   <<"p", "a", "s", "s", "w", "o", "r", "d">>,
   <<"e", "m", "a", "i", "l">>,
   <<"p", "r", "i", "n", "t", "e", "r">>,
   <<"i", "t">>,
   <<"t", "e", "c", "h", "n", "i", "c", "a", "l">>,
   <<"s", "y", "s", "t", "e", "m">>}

\* /clean|room|office|repair|maintenance|hvac|air condition|heating|ventilation|building/i
FACILITIES_KEYWORDS ==
  {<<"c", "l", "e", "a", "n">>,
   <<"r", "o", "o", "m">>,
   <<"o", "f", "f", "i", "c", "e">>,
   <<"r", "e", "p", "a", "i", "r">>,
   <<"m", "a", "i", "n", "t", "e", "n", "a", "n", "c", "e">>,
   <<"h", "v", "a", "c">>,
   <<"a", "i", "r", " ", "c", "o", "n", "d", "i", "t", "i", "o", "n">>,
   <<"h", "e", "a", "t", "i", "n", "g">>,
   <<"v", "e", "n", "t", "i", "l", "a", "t", "i", "o", "n">>,
   <<"b", "u", "i", "l", "d", "i", "n", "g">>}

\* /desk|chair|furniture|equipment|table|cabinet|storage|supplies/i
EQUIPMENT_KEYWORDS ==
  {<<"d", "e", "s", "k">>,
   <<"c", "h", "a", "i", "r">>,
   <<"f", "u", "r", "n", "i", "t", "u", "r", "e">>,
   <<"e", "q", "u", "i", "p", "m", "e", "n", "t">>,
   <<"t", "a", "b", "l", "e">>,
   <<"c", "a", "b", "i", "n", "e", "t">>,
   <<"s", "t", "o", "r", "a", "g", "e">>,
   <<"s", "u", "p", "p", "l", "i", "e", "s">>}

\* /safety|fire|emergency|hazard|accident|injury|security|alarm|evacuation/i
SAFETY_KEYWORDS ==
  {<<"s", "a", "f", "e", "t", "y">>,
   <<"f", "i", "r", "e">>,
   <<"e", "m", "e", "r", "g", "e", "n", "c", "y">>,
   <<"h", "a", "z", "a", "r", "d">>,
   <<"a", "c", "c", "i", "d", "e", "n", "t">>,
   <<"i", "n", "j", "u", "r", "y">>,
   <<"s", "e", "c", "u", "r", "i", "t", "y">>,
   <<"a", "l", "a", "r", "m">>,
   <<"e", "v", "a", "c", "u", "a", "t", "i", "o", "n">>}

\* /leave|vacation|payroll|benefits|training|hr|human resource|staff|employee|recruitment/i
HR_KEYWORDS ==
  {<<"l", "e", "a", "v", "e">>,
   <<"v", "a", "c", "a", "t", "i", "o", "n">>,
   <<"p", "a", "y", "r", "o", "l", "l">>,
   <<"b", "e", "n", "e", "f", "i", "t", "s">>,
   <<"t", "r", "a", "i", "n", "i", "n", "g">>,
   <<"h", "r">>,
   <<"h", "u", "m", "a", "n", " ", "r", "e", "s", "o", "u", "r", "c", "e">>,
   <<"s", "t", "a", "f", "f">>,
   <<"e", "m", "p", "l", "o", "y", "e", "e">>,
   <<"r", "e", "c", "r", "u", "i", "t", "m", "e", "n", "t">>}

\* /urgent|emergency|critical|immediate|asap|broken|not working|down|fire|safety|injury/i
CRITICAL_KEYWORDS ==
  {<<"u", "r", "g", "e", "n", "t">>,
   <<"e", "m", "e", "r", "g", "e", "n", "c", "y">>,
   <<"c", "r", "i", "t", "i", "c", "a", "l">>,
   <<"i", "m", "m", "e", "d", "i", "a", "t", "e">>,
   <<"a", "s", "a", "p">>,
   <<"b", "r", "o", "k", "e", "n">>,
   <<"n", "o", "t", " ", "w", "o", "r", "k", "i", "n", "g">>,
   <<"d", "o", "w", "n">>,
   <<"f", "i", "r", "e">>,
   <<"s", "a", "f", "e", "t", "y">>,
   <<"i", "n", "j", "u", "r", "y">>}

\* /important|high priority|soon|needed|blocking|cannot work/i
HIGH_KEYWORDS ==
  {<<"i", "m", "p", "o", "r", "t", "a", "n", "t">>,
   <<"h", "i", "g", "h", " ", "p", "r", "i", "o", "r", "i", "t", "y">>,
   <<"s", "o", "o", "n">>,
   <<"n", "e", "e", "d", "e", "d">>,
   <<"b", "l", "o", "c", "k", "i", "n", "g">>,
   <<"c", "a", "n", "n", "o", "t", " ", "w", "o", "r", "k">>}

\* /low priority|when possible|not urgent|minor|small/i
LOW_KEYWORDS ==
  {<<"l", "o", "w", " ", "p", "r", "i", "o", "r", "i", "t", "y">>,
   <<"w", "h", "e", "n", " ", "p", "o", "s", "s", "i", "b", "l", "e">>,
   <<"n", "o", "t", " ", "u", "r", "g", "e", "n", "t">>,
   <<"m", "i", "n", "o", "r">>,
   <<"s", "m", "a", "l", "l">>}

Titles ==
  {
   <<>>,   \* ''
   <<" ">>,   \* ' '
   <<"L", "a", "p", "t", "o", "p", " ", "b", "r", "o", "k", "e", "n">>,   \* 'Laptop broken'
   <<"f", "i", "r", "e", " ", "a", "l", "a", "r", "m", " ", "a", "n", "d", " ", "a", " ", "s", "l", "o", "w", " ", "c", "o", "m", "p", "u", "t", "e", "r">>,   \* 'fire alarm and a slow computer'
   <<"F", "i", "r", "e", " ", "d", "r", "i", "l", "l">>,   \* 'Fire drill'
   <<"N", "e", "w", " ", "c", "h", "a", "i", "r">>,   \* 'New chair'
   <<"L", "e", "a", "k", "y", " ", "r", "o", "o", "f">>,   \* 'Leaky roof'
   <<"V", "a", "c", "a", "t", "i", "o", "n">>,   \* 'Vacation'
   <<"S", "u", "b", "m", "i", "t", " ", "f", "o", "r", "m">>,   \* 'Submit form'
   <<"D", "o", "o", "r", " ", "d", "o", "e", "s", " ", "n", "o", "t">>,   \* 'Door does not'
   <<"C", "l", "e", "a", "n", " ", "r", "o", "o", "m", " ", "s", "o", "o", "n">>,   \* 'Clean room soon'
   <<"M", "i", "n", "o", "r", " ", "s", "c", "r", "a", "t", "c", "h">>   \* 'Minor scratch'
  }

Descriptions ==
  {
   <<>>,   \* ''
   <<"m", "y", " ", "l", "a", "p", "t", "o", "p", " ", "w", "o", "n", "'", "t", " ", "t", "u", "r", "n", " ", "o", "n">>,   \* 'my laptop won't turn on'
   <<"c", "o", "n", "d", "i", "t", "i", "o", "n">>,   \* 'condition'
   <<"n", "o", "t", " ", "u", "r", "g", "e", "n", "t", ",", " ", "w", "h", "e", "n", " ", "p", "o", "s", "s", "i", "b", "l", "e">>,   \* 'not urgent, when possible'
   <<"w", "o", "r", "k", "i", "n", "g", " ", "s", "i", "n", "c", "e", " ", "M", "o", "n", "d", "a", "y">>,   \* 'working since Monday'
   <<"N", "e", "e", "d", "e", "d", " ", "f", "o", "r", " ", "n", "e", "w", " ", "s", "t", "a", "f", "f">>   \* 'Needed for new staff'
  }

\* mutation: the safety rule is tried before the IT rule
Mut_SafetyRuleFirst(text) ==
  IF match(text, SAFETY_KEYWORDS) THEN "Safety and Fire Protection"
  ELSE IF match(text, IT_KEYWORDS) THEN "IT and Technical Support"
  ELSE IF match(text, FACILITIES_KEYWORDS) THEN "Facilities and Maintenance"
  ELSE IF match(text, EQUIPMENT_KEYWORDS) THEN "Equipment and Furniture"
  ELSE IF match(text, HR_KEYWORDS) THEN "HR and Staff Matters"
  ELSE "Other"
categorizeRequest(text) ==
  IF match(text, IT_KEYWORDS) THEN "IT and Technical Support"
  ELSE IF match(text, FACILITIES_KEYWORDS) THEN "Facilities and Maintenance"
  ELSE IF match(text, EQUIPMENT_KEYWORDS) THEN "Equipment and Furniture"
  ELSE IF match(text, SAFETY_KEYWORDS) THEN "Safety and Fire Protection"
  ELSE IF match(text, HR_KEYWORDS) THEN "HR and Staff Matters"
  ELSE "Other"

\* mutation: the High rule is tried before the Critical rule
Mut_HighRuleFirst(text) ==
  IF match(text, HIGH_KEYWORDS) THEN "High"
  ELSE IF match(text, CRITICAL_KEYWORDS) THEN "Critical"
  ELSE IF match(text, LOW_KEYWORDS) THEN "Low"
  ELSE "Medium"
determinePriority(text) ==
  IF match(text, CRITICAL_KEYWORDS) THEN "Critical"
  ELSE IF match(text, HIGH_KEYWORDS) THEN "High"
  ELSE IF match(text, LOW_KEYWORDS) THEN "Low"
  ELSE "Medium"

\* the templates around the interpolated title
RESPONSE_HEAD == "Your request regarding \""
RESPONSE_TAILS ==
  [c \in CATEGORIES |->
     CASE c = "IT and Technical Support" ->
            "\" has been received and forwarded to the IT and Technical Support Division. Our team will review your request and contact you shortly."
       [] c = "Facilities and Maintenance" ->
            "\" has been received and forwarded to the Facilities and Maintenance Division. A technician will be assigned to address your concern."
       [] c = "Equipment and Furniture" ->
            "\" has been received and forwarded to the Equipment and Furniture Division. We will process your request and notify you of the next steps."
       [] c = "Safety and Fire Protection" ->
            "\" has been received and forwarded to the Safety and Fire Protection Division. This matter will be treated with high priority."
       [] c = "HR and Staff Matters" ->
            "\" has been received and forwarded to the Human Resources Division. An HR representative will contact you to discuss your request."
       [] OTHER ->
            "\" has been received. We will review the details and route it to the appropriate department for handling."]

\* mutation: every category is answered with the template of 'Other'
Mut_OtherTemplateAlways(title, category) ==
  <<RESPONSE_HEAD, title, RESPONSE_TAILS["Other"]>>
\* responses[category] || responses['Other']; the template literal is kept as its
\* three parts: head, interpolated title, tail
generateResponse(title, category) ==
  IF category \in DOMAIN RESPONSE_TAILS
    THEN <<RESPONSE_HEAD, title, RESPONSE_TAILS[category]>>
    ELSE <<RESPONSE_HEAD, title, RESPONSE_TAILS["Other"]>>

UNITS ==
  [c \in CATEGORIES |->
     CASE c = "IT and Technical Support" -> "IT Division"
       [] c = "Facilities and Maintenance" -> "Technical Division"
       [] c = "Equipment and Furniture" -> "Procurement Division"
       [] c = "Safety and Fire Protection" -> "Safety Division"
       [] c = "HR and Staff Matters" -> "HR Division"
       [] OTHER -> "General Support"]

\* mutation: a category without keywords is routed to the IT division
Mut_OtherToItDivision(category) ==
  IF category \in DOMAIN UNITS /\ category # "Other" THEN UNITS[category] ELSE "IT Division"
\* units[category] || 'General Support'
getAssignedUnit(category) ==
  IF category \in DOMAIN UNITS THEN UNITS[category] ELSE "General Support"

analyzeRequest(title, description) ==
  LET text == toLowerCase(title \o <<" ">> \o description)
      category == categorizeRequest(text)
      priority == determinePriority(text)
      aiResponse == generateResponse(title, category)
      assignedUnit == getAssignedUnit(category)
  IN [category |-> category, priority |-> priority,
      aiResponse |-> aiResponse, assignedUnit |-> assignedUnit]

\* the form holds any of the sample texts, no override chosen
InitClassify ==
  /\ requests = {}
  /\ request_comments = {}
  /\ user_roles = {}
  /\ now = 0
  /\ nextRequestId = 1
  /\ nextCommentId = 1
  /\ session = "u1"
  /\ user = "u1"
  /\ userRole = "submitter"
  /\ loading = FALSE
  /\ pendingGetSession = FALSE
  /\ lookups = <<>>
  /\ \E title \in Titles, description \in Descriptions :
       form = [NewForm EXCEPT !.title = title, !.description = description]
  /\ panel = [u \in Users |-> NoPanel]
  /\ analysis = NoAnalysis
  /\ viewRequests = [u \in Users |-> {}]
  /\ InitLive

\* const analysis = analyzeRequest(title, description)
Analyze ==
  /\ form.open
  /\ analysis' = analyzeRequest(form.title, form.description)
  /\ UNCHANGED <<session, user, userRole, loading, pendingGetSession, lookups, form, panel,
                 viewRequests>>
  /\ UNCHANGED dbVars

NextClassify == Analyze /\ UNCHANGED liveVars

SpecClassify == InitClassify /\ [][NextClassify]_vars

\* ---- SubmitterView and NewRequestForm ----
\* user.user_metadata.name and user.email of the two accounts
USER_METADATA_NAME == [u \in Users |-> IF u = "u1" THEN "Anna" ELSE ""]
USER_EMAIL == [u \in Users |-> IF u = "u1" THEN "anna@example.org" ELSE "boris@example.org"]

FormTitles ==
  {<<"L", "a", "p", "t", "o", "p", " ", "b", "r", "o", "k", "e", "n">>,   \* 'Laptop broken'
   <<"L", "e", "a", "k", "y", " ", "r", "o", "o", "f">>}   \* 'Leaky roof'
FormDescriptions ==
  {<<"N", "e", "e", "d", "e", "d", " ", "f", "o", "r", " ", "n", "e", "w", " ", "s", "t", "a", "f", "f">>}   \* 'Needed for new staff'

\* mutation: the classifier's category and priority are stored whatever the form says
Mut_ClassifierAlwaysWins(a) ==
  [title |-> form.title,
   description |-> form.description,
   category |-> a.category,
   priority |-> a.priority,
   submitter_id |-> user,
   submitter_name |-> IF USER_METADATA_NAME[user] # "" THEN USER_METADATA_NAME[user]
                      ELSE USER_EMAIL[user],
   assigned_unit |-> a.assignedUnit,
   ai_response |-> a.aiResponse,
   status |-> "Received"]
\* the object handleSubmit inserts, a the classifier's result
NewRequestPayload(a) ==
  [title |-> form.title,
   description |-> form.description,
   category |-> IF form.manualCategory # "" THEN form.manualCategory ELSE a.category,
   priority |-> IF form.manualPriority # "" THEN form.manualPriority ELSE a.priority,
   submitter_id |-> user,
   submitter_name |-> IF USER_METADATA_NAME[user] # "" THEN USER_METADATA_NAME[user]
                      ELSE USER_EMAIL[user],
   assigned_unit |-> a.assignedUnit,
   ai_response |-> a.aiResponse,
   status |-> "Received"]

\* mutation: the table stores its default status and an empty response
Mut_StoredWithDefaults(payload, id) ==
  [id |-> id, title |-> payload.title, description |-> payload.description,
   category |-> payload.category, priority |-> payload.priority, status |-> "Received",
   submitter_id |-> payload.submitter_id, submitter_name |-> payload.submitter_name,
   assigned_unit |-> payload.assigned_unit, assigned_handler |-> "",
   ai_response |-> <<>>, created_at |-> now, updated_at |-> now,
   resolved_at |-> NULL, deadline |-> NULL]
\* the row INSERT INTO requests builds from the nine supplied columns and the DEFAULTs
StoredRequest(payload, id) ==
  [id |-> id, title |-> payload.title, description |-> payload.description,
   category |-> payload.category, priority |-> payload.priority, status |-> payload.status,
   submitter_id |-> payload.submitter_id, submitter_name |-> payload.submitter_name,
   assigned_unit |-> payload.assigned_unit, assigned_handler |-> "",
   ai_response |-> payload.ai_response, created_at |-> now, updated_at |-> now,
   resolved_at |-> NULL, deadline |-> NULL]

\* SubmitterView.loadRequests: select('*').eq('submitter_id', user.id), as a set of rows
SubmitterLoadRequests(uid, userId) == {r \in SelectRequests(uid) : r.submitter_id = userId}

\* a signed-in submitter looks at the empty list
InitForm ==
  /\ requests = {}
  /\ request_comments = {}
  /\ user_roles = {}
  /\ now = 0
  /\ nextRequestId = 1
  /\ nextCommentId = 1
  /\ session \in Users
  /\ user = session
  /\ userRole = "submitter"
  /\ loading = FALSE
  /\ pendingGetSession = FALSE
  /\ lookups = <<>>
  /\ form = NoForm
  /\ panel = [u \in Users |-> NoPanel]
  /\ analysis = NoAnalysis
  /\ viewRequests = [u \in Users |-> {}]
  /\ InitLive

\* the 'New Request' button: setShowNewForm(true) mounts the form
OpenNewForm ==
  /\ AppContent = "SubmitterView"
  /\ ~form.open
  /\ nextRequestId <= MaxRequests
  /\ form' = NewForm
  /\ UNCHANGED <<session, user, userRole, loading, pendingGetSession, lookups, panel,
                 analysis, viewRequests>>
  /\ UNCHANGED dbVars

\* the onChange handlers of the four inputs, while no submission is under way
setTitle(title) ==
  /\ form.open /\ form.pc = "idle"
  /\ form' = [form EXCEPT !.title = title]
  /\ UNCHANGED <<session, user, userRole, loading, pendingGetSession, lookups, panel,
                 analysis, viewRequests>>
  /\ UNCHANGED dbVars

setDescription(description) ==
  /\ form.open /\ form.pc = "idle"
  /\ form' = [form EXCEPT !.description = description]
  /\ UNCHANGED <<session, user, userRole, loading, pendingGetSession, lookups, panel,
                 analysis, viewRequests>>
  /\ UNCHANGED dbVars

setManualCategory(category) ==
  /\ form.open /\ form.pc = "idle"
  /\ form' = [form EXCEPT !.manualCategory = category]
  /\ UNCHANGED <<session, user, userRole, loading, pendingGetSession, lookups, panel,
                 analysis, viewRequests>>
  /\ UNCHANGED dbVars

setManualPriority(priority) ==
  /\ form.open /\ form.pc = "idle"
  /\ form' = [form EXCEPT !.manualPriority = priority]
  /\ UNCHANGED <<session, user, userRole, loading, pendingGetSession, lookups, panel,
                 analysis, viewRequests>>
  /\ UNCHANGED dbVars

\* handleSubmit up to its await; both inputs are required
handleSubmit ==
  /\ form.open /\ form.pc = "idle"
  /\ form.title # <<>> /\ form.description # <<>>
  /\ analysis' = analyzeRequest(form.title, form.description)
  /\ form' = [form EXCEPT !.error = "", !.loading = TRUE, !.pc = "sent",
                          !.payload = <<NewRequestPayload(analysis')>>]
  /\ UNCHANGED <<session, user, userRole, loading, pendingGetSession, lookups, panel,
                 viewRequests>>
  /\ UNCHANGED dbVars

\* the database executes the INSERT under the session's token
handleSubmit_Insert ==
  /\ form.open /\ form.pc = "sent"
  /\ LET row == StoredRequest(form.payload[1], nextRequestId)
     IN /\ requests' = RequestsAfterInsert(session, row)
        /\ nextRequestId' = IF InsertRequestAccepted(session, row)
                              THEN nextRequestId + 1 ELSE nextRequestId
        /\ form' = [form EXCEPT !.pc = "answered",
                                !.insertError = ~InsertRequestAccepted(session, row)]
  /\ UNCHANGED <<request_comments, user_roles, now, nextCommentId>>
  /\ UNCHANGED <<session, user, userRole, loading, pendingGetSession, lookups, panel,
                 analysis, viewRequests>>

\* handleSubmit after its await: an error text is shown (err.message, or the text below
\* when err is no Error), or onSuccess() reloads the list and onClose() unmounts the form
handleSubmit_Return ==
  /\ form.open /\ form.pc = "answered"
  /\ IF form.insertError
       THEN /\ form' = [form EXCEPT !.error = "Failed to submit request",
                                    !.loading = FALSE, !.pc = "idle", !.payload = <<>>,
                                    !.insertError = FALSE]
            /\ UNCHANGED viewRequests
       ELSE /\ form' = NoForm
            /\ viewRequests' = [viewRequests EXCEPT ![user] = SubmitterLoadRequests(session, user)]
  /\ UNCHANGED <<session, user, userRole, loading, pendingGetSession, lookups, panel, analysis>>
  /\ UNCHANGED dbVars

NextForm ==
  \/ OpenNewForm /\ UNCHANGED liveVars
  \/ \E title \in FormTitles : setTitle(title) /\ UNCHANGED liveVars
  \/ \E description \in FormDescriptions : setDescription(description) /\ UNCHANGED liveVars
  \/ \E category \in CATEGORIES \cup {""} : setManualCategory(category) /\ UNCHANGED liveVars
  \/ \E priority \in PRIORITIES \cup {""} : setManualPriority(priority) /\ UNCHANGED liveVars
  \/ handleSubmit /\ UNCHANGED liveVars
  \/ handleSubmit_Insert /\ UNCHANGED liveVars
  \/ handleSubmit_Return /\ UNCHANGED liveVars

SpecForm == InitForm /\ [][NextForm]_vars

\* ---- HandlerView and RequestDetails in the browsers of two handlers ----
\* HandlerView.loadRequests: select('*'), as a set of rows
HandlerLoadRequests(uid) == SelectRequests(uid)

\* what a handler changes in the edit form before saving: the status, or the priority
\* together with the handler's own name, or category, unit and deadline together
EditChanges(h) ==
  {[NoPatch EXCEPT !.status = s] : s \in STATUSES}
    \cup {[NoPatch EXCEPT !.priority = "High",
                          !.assigned_handler = IF USER_METADATA_NAME[h] # ""
                                                 THEN USER_METADATA_NAME[h] ELSE USER_EMAIL[h]]}
    \cup {[NoPatch EXCEPT !.category = "Equipment and Furniture",
                          !.assigned_unit = "Procurement Division",
                          !.deadline = MaxTime]}

\* mutation: the update leaves assigned_handler out
Mut_HandlerColumnNotWritten(edited) ==
  [NoPatch EXCEPT !.status = edited.status,
                  !.priority = edited.priority,
                  !.category = edited.category,
                  !.assigned_unit = edited.assigned_unit,
                  !.deadline = edited.deadline]
\* the object handleUpdateRequest passes to update()
UpdatePayload(edited) ==
  [NoPatch EXCEPT !.status = edited.status,
                  !.priority = edited.priority,
                  !.category = edited.category,
                  !.assigned_unit = edited.assigned_unit,
                  !.assigned_handler = edited.assigned_handler,
                  !.deadline = edited.deadline]

\* both users hold the handler role and look at HandlerView; u2 has submitted a request
InitEdit ==
  /\ now = 0
  /\ requests = {StoredRequest([title |-> <<"t">>, description |-> <<"d">>,
                                category |-> "Other", priority |-> "Medium",
                                submitter_id |-> "u2", submitter_name |-> USER_EMAIL["u2"],
                                assigned_unit |-> "General Support",
                                ai_response |-> generateResponse(<<"t">>, "Other"),
                                status |-> "Received"], 1)}
  /\ request_comments = {}
  /\ user_roles = {RoleRow(u, "handler") : u \in Users}
  /\ nextRequestId = 2
  /\ nextCommentId = 1
  /\ session = "u1"
  /\ user = "u1"
  /\ userRole = "handler"
  /\ loading = FALSE
  /\ pendingGetSession = FALSE
  /\ lookups = <<>>
  /\ form = NoForm
  /\ panel = [u \in Users |-> NoPanel]
  /\ analysis = NoAnalysis
  /\ viewRequests = [u \in Users |-> HandlerLoadRequests(u)]
  /\ InitLive

\* a click on a row of the list: setSelectedRequest(request) mounts RequestDetails
selectRequest(h, r) ==
  /\ ~panel[h].open
  /\ r \in viewRequests[h]
  /\ panel' = [panel EXCEPT ![h] = NewPanel(r, TRUE)]
  /\ UNCHANGED <<session, user, userRole, loading, pendingGetSession, lookups, form,
                 analysis, viewRequests>>
  /\ UNCHANGED dbVars

\* the 'Update Request' button: setEditMode(true)
startEdit(h) ==
  /\ panel[h].open /\ panel[h].isHandler /\ ~panel[h].editMode
  /\ panel' = [panel EXCEPT ![h].editMode = TRUE]
  /\ UNCHANGED <<session, user, userRole, loading, pendingGetSession, lookups, form,
                 analysis, viewRequests>>
  /\ UNCHANGED dbVars

\* the onChange handlers of the edit form: setEditedRequest({...editedRequest, ...})
setEditedRequest(h, changes) ==
  /\ panel[h].open /\ panel[h].editMode /\ panel[h].pc = "idle"
  /\ panel' = [panel EXCEPT ![h].editedRequest = ApplyPatch(@, changes)]
  /\ UNCHANGED <<session, user, userRole, loading, pendingGetSession, lookups, form,
                 analysis, viewRequests>>
  /\ UNCHANGED dbVars

\* handleUpdateRequest up to its await
handleUpdateRequest(h) ==
  /\ panel[h].open /\ panel[h].editMode /\ panel[h].pc = "idle"
  /\ panel' = [panel EXCEPT ![h].loading = TRUE, ![h].pc = "sent",
                            ![h].patch = <<UpdatePayload(panel[h].editedRequest)>>]
  /\ UNCHANGED <<session, user, userRole, loading, pendingGetSession, lookups, form,
                 analysis, viewRequests>>
  /\ UNCHANGED dbVars

\* the database executes UPDATE requests SET ... WHERE id = request.id for h;
\* a statement that changes no row is no error
handleUpdateRequest_Update(h) ==
  /\ panel[h].open /\ panel[h].pc = "sent"
  /\ UpdateRequest(h, panel[h].request.id, panel[h].patch[1])
  /\ panel' = [panel EXCEPT ![h].pc = "answered", ![h].updateError = FALSE]
  /\ UNCHANGED <<session, user, userRole, loading, pendingGetSession, lookups, form,
                 analysis, viewRequests>>

\* handleUpdateRequest after its await: on success setEditMode(false) and onUpdate(),
\* which is HandlerView.loadRequests; setLoading(false) in both cases
handleUpdateRequest_Return(h) ==
  /\ panel[h].open /\ panel[h].pc = "answered"
  /\ IF panel[h].updateError
       THEN /\ panel' = [panel EXCEPT ![h].loading = FALSE, ![h].pc = "idle",
                                      ![h].patch = <<>>, ![h].updateError = FALSE]
            /\ UNCHANGED viewRequests
       ELSE /\ panel' = [panel EXCEPT ![h].editMode = FALSE, ![h].loading = FALSE,
                                      ![h].pc = "idle", ![h].patch = <<>>]
            /\ viewRequests' = [viewRequests EXCEPT ![h] = HandlerLoadRequests(h)]
  /\ UNCHANGED <<session, user, userRole, loading, pendingGetSession, lookups, form, analysis>>
  /\ UNCHANGED dbVars

NextEdit ==
  \/ \E h \in Users, r \in requests : selectRequest(h, r) /\ UNCHANGED liveVars
  \/ \E h \in Users : startEdit(h) /\ UNCHANGED liveVars
  \/ \E h \in Users : \E changes \in EditChanges(h) : setEditedRequest(h, changes) /\ UNCHANGED liveVars
  \/ \E h \in Users : handleUpdateRequest(h) /\ UNCHANGED liveVars
  \/ \E h \in Users : handleUpdateRequest_Update(h) /\ UNCHANGED liveVars
  \/ \E h \in Users : handleUpdateRequest_Return(h) /\ UNCHANGED liveVars

SpecEdit == InitEdit /\ [][NextEdit]_vars

\* ---- one handler's HandlerView and RequestDetails over two requests and a comment ----
\* u1 holds the handler role and looks at HandlerView; u2 has submitted two requests and
\* commented on the first
InitFrame ==
  /\ now = 0
  /\ requests = {StoredRequest([title |-> <<"t">>, description |-> <<"d">>,
                                category |-> "Other", priority |-> "Medium",
                                submitter_id |-> "u2", submitter_name |-> USER_EMAIL["u2"],
                                assigned_unit |-> "General Support",
                                ai_response |-> generateResponse(<<"t">>, "Other"),
                                status |-> "Received"], id) : id \in {1, 2}}
  /\ request_comments = {CommentRow(1, 1, "u2", 0)}
  /\ user_roles = {RoleRow("u1", "handler"), RoleRow("u2", "submitter")}
  /\ nextRequestId = 3
  /\ nextCommentId = 2
  /\ session = "u1"
  /\ user = "u1"
  /\ userRole = "handler"
  /\ loading = FALSE
  /\ pendingGetSession = FALSE
  /\ lookups = <<>>
  /\ form = NoForm
  /\ panel = [u \in Users |-> NoPanel]
  /\ analysis = NoAnalysis
  /\ viewRequests = [u \in Users |-> IF u = "u1" THEN HandlerLoadRequests(u) ELSE {}]
  /\ InitLive

\* onClose: setSelectedRequest(null) unmounts RequestDetails
closeRequest(h) ==
  /\ panel[h].open /\ panel[h].pc = "idle"
  /\ panel' = [panel EXCEPT ![h] = NoPanel]
  /\ UNCHANGED <<session, user, userRole, loading, pendingGetSession, lookups, form,
                 analysis, viewRequests>>
  /\ UNCHANGED dbVars

NextFrame ==
  \/ \E r \in requests : selectRequest(user, r) /\ UNCHANGED liveVars
  \/ closeRequest(user) /\ UNCHANGED liveVars
  \/ startEdit(user) /\ UNCHANGED liveVars
  \/ \E changes \in EditChanges(user) : setEditedRequest(user, changes) /\ UNCHANGED liveVars
  \/ handleUpdateRequest(user) /\ UNCHANGED liveVars
  \/ handleUpdateRequest_Update(user) /\ UNCHANGED liveVars
  \/ handleUpdateRequest_Return(user) /\ UNCHANGED liveVars

SpecFrame == InitFrame /\ [][NextFrame]_vars

\* ---- the live lists: HandlerView and SubmitterView re-query on every change ----
\* the view AppContent mounts in u's browser once u's role lookup has returned
MountedView(u) ==
  IF RoleOrSubmitter(maybeSingle(RoleLookupRows(u, u)).data) = "handler"
    THEN "HandlerView" ELSE "SubmitterView"

\* the query of loadRequests in the view mounted for u
ViewQuery(u) ==
  IF MountedView(u) = "HandlerView" THEN HandlerLoadRequests(u) ELSE SubmitterLoadRequests(u, u)

\* a re-query of u's list; stage is "notified" (the change notification is on its way to
\* the browser), "sent" (loadRequests awaits the answer) or "answered" (the database has
\* answered with data, or the query has failed)
NewLoad(u, stage) == [view |-> u, stage |-> stage, data |-> {}, error |-> FALSE]

\* the channel of u's view: HandlerView subscribes to every change of requests,
\* SubmitterView with the filter submitter_id=eq.<user id>; a change is delivered only
\* for rows the subscriber may select
ViewReceives(u, r) ==
  /\ RequestsSelectPolicy(u, r)
  /\ MountedView(u) = "SubmitterView" => r.submitter_id = u

\* one notification for every view that receives the change of one of the rows
Notifications(rows) ==
  SetToBag({NewLoad(u, "notified") : u \in {v \in Users : \E r \in rows : ViewReceives(v, r)}})

\* the statement of this step has written rows: their new images are announced; at most
\* MaxLoads re-queries are outstanding at a time
postgres_changes ==
  /\ loads' = loads (+) Notifications(requests' \ requests)
  /\ BagCardinality(loads') <= MaxLoads
  /\ UNCHANGED <<handlerView, signup>>

\* the re-query e leaves the bag, or stays in it as the record next
Without(e) == loads (-) SetToBag({e})
Replaced(e, next) == Without(e) (+) SetToBag({next})

\* the callback of the channel: () => { loadRequests(); }, up to the await
onPostgresChange(e) ==
  /\ BagIn(e, loads) /\ e.stage = "notified"
  /\ loads' = Replaced(e, [e EXCEPT !.stage = "sent"])
  /\ UNCHANGED <<handlerView, signup>>
  /\ UNCHANGED <<session, user, userRole, loading, pendingGetSession, lookups, form, panel,
                 analysis, viewRequests>>
  /\ UNCHANGED dbVars

\* the database answers the re-query e from the rows it holds then
loadRequests_Query(e) ==
  /\ BagIn(e, loads) /\ e.stage = "sent"
  /\ loads' = Replaced(e, [e EXCEPT !.stage = "answered", !.data = ViewQuery(e.view)])
  /\ UNCHANGED <<handlerView, signup>>
  /\ UNCHANGED <<session, user, userRole, loading, pendingGetSession, lookups, form, panel,
                 analysis, viewRequests>>
  /\ UNCHANGED dbVars

\* the re-query e fails: { data: null, error }
loadRequests_QueryFails(e) ==
  /\ BagIn(e, loads) /\ e.stage = "sent"
  /\ loads' = Replaced(e, [e EXCEPT !.stage = "answered", !.error = TRUE])
  /\ UNCHANGED <<handlerView, signup>>
  /\ UNCHANGED <<session, user, userRole, loading, pendingGetSession, lookups, form, panel,
                 analysis, viewRequests>>
  /\ UNCHANGED dbVars

\* mutation: setRequests runs whatever the outcome, with no rows after an error
Mut_ListReplacedOnError(e) ==
  /\ BagIn(e, loads) /\ e.stage = "answered"
  /\ viewRequests' = [viewRequests EXCEPT ![e.view] = e.data]
  /\ loads' = Without(e)
  /\ UNCHANGED <<handlerView, signup>>
  /\ UNCHANGED <<session, user, userRole, loading, pendingGetSession, lookups, form, panel, analysis>>
  /\ UNCHANGED dbVars
\* loadRequests after its await: if (!error && data) setRequests(data)
loadRequests_Return(e) ==
  /\ BagIn(e, loads) /\ e.stage = "answered"
  /\ viewRequests' = IF e.error THEN viewRequests ELSE [viewRequests EXCEPT ![e.view] = e.data]
  /\ loads' = Without(e)
  /\ UNCHANGED <<handlerView, signup>>
  /\ UNCHANGED <<session, user, userRole, loading, pendingGetSession, lookups, form, panel, analysis>>
  /\ UNCHANGED dbVars

\* handler u1 and submitter u2 have just mounted their views over the empty table:
\* the loadRequests() call of each mount effect is on its way
InitViews ==
  /\ requests = {}
  /\ request_comments = {}
  /\ user_roles = {RoleRow("u1", "handler"), RoleRow("u2", "submitter")}
  /\ now = 0
  /\ nextRequestId = 1
  /\ nextCommentId = 1
  /\ session = "u1"
  /\ user = "u1"
  /\ userRole = "handler"
  /\ loading = FALSE
  /\ pendingGetSession = FALSE
  /\ lookups = <<>>
  /\ form = NoForm
  /\ panel = [u \in Users |-> NoPanel]
  /\ analysis = NoAnalysis
  /\ viewRequests = [u \in Users |-> {}]
  /\ loads = SetToBag({NewLoad(u, "sent") : u \in Users})
  /\ handlerView = NoHandlerView
  /\ signup = NoSignUp

LiveClientUnchanged ==
  UNCHANGED <<session, user, userRole, loading, pendingGetSession, lookups, form, panel,
              analysis, viewRequests>>

NextLive ==
  \/ \E caller \in Users :
       /\ InsertRequest(caller, caller, "Received", NULL)
       /\ postgres_changes
       /\ LiveClientUnchanged
  \/ \E caller \in Users, r \in requests, s \in STATUSES :
       /\ UpdateRequest(caller, r.id, [NoPatch EXCEPT !.status = s])
       /\ postgres_changes
       /\ LiveClientUnchanged
  \/ \E e \in BagToSet(loads) : onPostgresChange(e)
  \/ \E e \in BagToSet(loads) : loadRequests_Query(e)
  \/ \E e \in BagToSet(loads) : loadRequests_Return(e)

SpecLive == InitViews /\ [][NextLive]_vars

\* ---- the application alone: a submitter's form and a handler's panel ----
\* a change notification, the re-query it starts and the answer, as one step of u's view
loadRequests(u) ==
  /\ viewRequests[u] # ViewQuery(u)
  /\ viewRequests' = [viewRequests EXCEPT ![u] = ViewQuery(u)]
  /\ UNCHANGED <<session, user, userRole, loading, pendingGetSession, lookups, form, panel, analysis>>
  /\ UNCHANGED dbVars

\* submitter u2 looks at SubmitterView and handler u1 at HandlerView, both over the empty
\* requests table and both lists loaded
InitApp ==
  /\ requests = {}
  /\ request_comments = {}
  /\ user_roles = {RoleRow("u1", "handler"), RoleRow("u2", "submitter")}
  /\ now = 0
  /\ nextRequestId = 1
  /\ nextCommentId = 1
  /\ session = "u2"
  /\ user = "u2"
  /\ userRole = "submitter"
  /\ loading = FALSE
  /\ pendingGetSession = FALSE
  /\ lookups = <<>>
  /\ form = NoForm
  /\ panel = [u \in Users |-> NoPanel]
  /\ analysis = NoAnalysis
  /\ viewRequests = [u \in Users |-> {}]
  /\ InitLive

\* the browsers that show HandlerView
Handlers == {u \in Users : MountedView(u) = "HandlerView"}

\* the status select of the edit form
StatusChanges == {[NoPatch EXCEPT !.status = s] : s \in STATUSES}

NextApp ==
  \/ OpenNewForm /\ UNCHANGED liveVars
  \/ \E title \in FormTitles : setTitle(title) /\ UNCHANGED liveVars
  \/ \E description \in FormDescriptions : setDescription(description) /\ UNCHANGED liveVars
  \/ handleSubmit /\ UNCHANGED liveVars
  \/ handleSubmit_Insert /\ UNCHANGED liveVars
  \/ handleSubmit_Return /\ UNCHANGED liveVars
  \/ \E h \in Handlers : loadRequests(h) /\ UNCHANGED liveVars
  \/ \E h \in Handlers : \E r \in viewRequests[h] : selectRequest(h, r) /\ UNCHANGED liveVars
  \/ \E h \in Handlers : closeRequest(h) /\ UNCHANGED liveVars
  \/ \E h \in Handlers : startEdit(h) /\ UNCHANGED liveVars
  \/ \E h \in Handlers : \E changes \in StatusChanges :
       setEditedRequest(h, changes) /\ UNCHANGED liveVars
  \/ \E h \in Handlers : handleUpdateRequest(h) /\ UNCHANGED liveVars
  \/ \E h \in Handlers : handleUpdateRequest_Update(h) /\ UNCHANGED liveVars
  \/ \E h \in Handlers : handleUpdateRequest_Return(h) /\ UNCHANGED liveVars

SpecApp == InitApp /\ [][NextApp]_vars

\* ---- failures: the form, the panel and the live lists when a request fails ----
\* the insert of handleSubmit fails before the database executes it: { error: insertError }
handleSubmit_InsertFails ==
  /\ form.open /\ form.pc = "sent"
  /\ form' = [form EXCEPT !.pc = "answered", !.insertError = TRUE]
  /\ UNCHANGED <<session, user, userRole, loading, pendingGetSession, lookups, panel,
                 analysis, viewRequests>>
  /\ UNCHANGED dbVars

\* the update of handleUpdateRequest fails before the database executes it: { error }
handleUpdateRequest_UpdateFails(h) ==
  /\ panel[h].open /\ panel[h].pc = "sent"
  /\ panel' = [panel EXCEPT ![h].pc = "answered", ![h].updateError = TRUE]
  /\ UNCHANGED <<session, user, userRole, loading, pendingGetSession, lookups, form,
                 analysis, viewRequests>>
  /\ UNCHANGED dbVars

\* the handler closes or reopens the request in the status selector
ClosingChanges == {[NoPatch EXCEPT !.status = s] : s \in {"Resolved", "In Progress"}}

\* u2 has submitted request 1 and both lists show it; u2 has opened the form again and
\* typed a title and a description; handler u1 has opened request 1 and pressed
\* 'Update Request'
InitFail ==
  /\ now = 0
  /\ requests = {StoredRequest([title |-> <<"t">>, description |-> <<"d">>,
                                category |-> "Other", priority |-> "Medium",
                                submitter_id |-> "u2", submitter_name |-> USER_EMAIL["u2"],
                                assigned_unit |-> "General Support",
                                ai_response |-> generateResponse(<<"t">>, "Other"),
                                status |-> "Received"], 1)}
  /\ request_comments = {}
  /\ user_roles = {RoleRow("u1", "handler"), RoleRow("u2", "submitter")}
  /\ nextRequestId = 2
  /\ nextCommentId = 1
  /\ session = "u2"
  /\ user = "u2"
  /\ userRole = "submitter"
  /\ loading = FALSE
  /\ pendingGetSession = FALSE
  /\ lookups = <<>>
  /\ form = [NewForm EXCEPT !.title = <<"t">>, !.description = <<"d">>]
  /\ panel = [u \in Users |->
                IF u \in Handlers
                  THEN [NewPanel(CHOOSE r \in requests : TRUE, TRUE) EXCEPT !.editMode = TRUE]
                  ELSE NoPanel]
  /\ analysis = NoAnalysis
  /\ viewRequests = [u \in Users |-> ViewQuery(u)]
  /\ InitLive

NextFail ==
  \/ handleSubmit /\ UNCHANGED liveVars
  \/ handleSubmit_Insert /\ postgres_changes
  \/ handleSubmit_InsertFails /\ UNCHANGED liveVars
  \/ handleSubmit_Return /\ UNCHANGED liveVars
  \/ \E h \in Handlers : startEdit(h) /\ UNCHANGED liveVars
  \/ \E h \in Handlers : \E changes \in ClosingChanges :
       setEditedRequest(h, changes) /\ UNCHANGED liveVars
  \/ \E h \in Handlers : handleUpdateRequest(h) /\ UNCHANGED liveVars
  \/ \E h \in Handlers : handleUpdateRequest_Update(h) /\ postgres_changes
  \/ \E h \in Handlers : handleUpdateRequest_UpdateFails(h) /\ UNCHANGED liveVars
  \/ \E h \in Handlers : handleUpdateRequest_Return(h) /\ UNCHANGED liveVars
  \/ \E e \in BagToSet(loads) : onPostgresChange(e)
  \/ \E e \in BagToSet(loads) : loadRequests_Query(e)
  \/ \E e \in BagToSet(loads) : loadRequests_QueryFails(e)
  \/ \E e \in BagToSet(loads) : loadRequests_Return(e)

SpecFail == InitFail /\ [][NextFail]_vars

\* ---- signUp: the account, then the role row ----
\* signUp(email, password, name, role) up to its first await, with email the address of u
signUp(u, role) ==
  /\ signup.pc = "idle"
  /\ session = NoUser
  /\ signup' = [pc |-> "sent", user |-> u, role |-> role, insertError |-> FALSE]
  /\ UNCHANGED <<loads, handlerView>>
  /\ UNCHANGED <<session, user, userRole, loading, pendingGetSession, lookups, form, panel,
                 analysis, viewRequests>>
  /\ UNCHANGED dbVars

\* supabase.auth.signUp answers { error }: if (error) throw error
signUp_AuthFails ==
  /\ signup.pc = "sent"
  /\ signup' = [signup EXCEPT !.pc = "threw"]
  /\ UNCHANGED <<loads, handlerView>>
  /\ UNCHANGED <<session, user, userRole, loading, pendingGetSession, lookups, form, panel,
                 analysis, viewRequests>>
  /\ UNCHANGED dbVars

\* supabase.auth.signUp creates the account and signs it in: data.user and a session;
\* the onAuthStateChange callback of AuthProvider runs; signUp goes on to the insert
signUp_AuthSignedIn ==
  /\ signup.pc = "sent"
  /\ signup' = [signup EXCEPT !.pc = "created"]
  /\ AuthStateChange(signup.user)
  /\ UNCHANGED <<loads, handlerView>>

\* supabase.auth.signUp creates the account and waits for the address to be confirmed:
\* data.user without a session; signUp goes on to the insert with the anonymous key
signUp_AuthUnconfirmed ==
  /\ signup.pc = "sent"
  /\ signup' = [signup EXCEPT !.pc = "created"]
  /\ UNCHANGED <<loads, handlerView>>
  /\ UNCHANGED <<session, user, userRole, loading, pendingGetSession, lookups, form, panel,
                 analysis, viewRequests>>
  /\ UNCHANGED dbVars

\* the database executes supabase.from('user_roles').insert({ user_id: data.user.id, role })
\* under the token the client holds
signUp_Insert ==
  /\ signup.pc = "created"
  /\ InsertRole(session, signup.user, signup.role)
  /\ signup' = [signup EXCEPT !.pc = "answered",
                              !.insertError =
                                 ~InsertRoleAccepted(session, RoleRow(signup.user, signup.role))]
  /\ UNCHANGED <<loads, handlerView>>
  /\ UNCHANGED <<session, user, userRole, loading, pendingGetSession, lookups, form, panel,
                 analysis, viewRequests>>

\* the insert does not reach the database: { error }
signUp_InsertFails ==
  /\ signup.pc = "created"
  /\ signup' = [signup EXCEPT !.pc = "answered", !.insertError = TRUE]
  /\ UNCHANGED <<loads, handlerView>>
  /\ UNCHANGED <<session, user, userRole, loading, pendingGetSession, lookups, form, panel,
                 analysis, viewRequests>>
  /\ UNCHANGED dbVars

\* signUp after its second await: the result of the insert is dropped and signUp returns
signUp_Return ==
  /\ signup.pc = "answered"
  /\ signup' = [signup EXCEPT !.pc = "returned"]
  /\ UNCHANGED <<loads, handlerView>>
  /\ UNCHANGED <<session, user, userRole, loading, pendingGetSession, lookups, form, panel,
                 analysis, viewRequests>>
  /\ UNCHANGED dbVars

\* the sign-in page is shown: no session, no account, no role row
InitSignUp ==
  /\ requests = {}
  /\ request_comments = {}
  /\ user_roles = {}
  /\ now = 0
  /\ nextRequestId = 1
  /\ nextCommentId = 1
  /\ session = NoUser
  /\ user = NoUser
  /\ userRole = NoRole
  /\ loading = FALSE
  /\ pendingGetSession = FALSE
  /\ lookups = <<>>
  /\ form = NoForm
  /\ panel = [u \in Users |-> NoPanel]
  /\ analysis = NoAnalysis
  /\ viewRequests = [u \in Users |-> {}]
  /\ InitLive

NextSignUp ==
  \/ \E u \in Users, role \in ROLES : signUp(u, role)
  \/ signUp_AuthFails
  \/ signUp_AuthSignedIn
  \/ signUp_AuthUnconfirmed
  \/ signUp_Insert
  \/ signUp_InsertFails
  \/ signUp_Return
  \/ session # NoUser /\ AuthStateChange(NoUser) /\ UNCHANGED liveVars
  \/ \E i \in DOMAIN lookups : fetchUserRole_Query(i) /\ UNCHANGED liveVars
  \/ \E i \in DOMAIN lookups : fetchUserRole_Return(i) /\ UNCHANGED liveVars

SpecSignUp == InitSignUp /\ [][NextSignUp]_vars

\* ---- HandlerView: the list and its filters ----
\* .order('created_at', { ascending: false })
RECURSIVE OrderByCreatedAtDesc(_)
OrderByCreatedAtDesc(rows) ==
  IF rows = {} THEN <<>>
  ELSE LET first == CHOOSE r \in rows : \A o \in rows : o.created_at <= r.created_at
       IN <<first>> \o OrderByCreatedAtDesc(rows \ {first})

\* String.prototype.includes
includes(text, search) ==
  \E i \in 0..(Len(text) - Len(search)) : SubSeq(text, i + 1, i + Len(search)) = search

\* mutation: the texts of the row are searched as stored, not lower-cased
Mut_SearchAsStored(hv) ==
  LET search == toLowerCase(hv.searchTerm)
      bySearch == IF hv.searchTerm # <<>>
                    THEN SelectSeq(hv.requests,
                                   LAMBDA r : \/ includes(r.title, search)
                                              \/ includes(r.description, search)
                                              \/ includes(r.submitter_name, search))
                    ELSE hv.requests
      byCategory == IF hv.filterCategory # ""
                      THEN SelectSeq(bySearch, LAMBDA r : r.category = hv.filterCategory)
                      ELSE bySearch
      byStatus == IF hv.filterStatus # ""
                    THEN SelectSeq(byCategory, LAMBDA r : r.status = hv.filterStatus)
                    ELSE byCategory
  IN IF hv.filterPriority # ""
       THEN SelectSeq(byStatus, LAMBDA r : r.priority = hv.filterPriority)
       ELSE byStatus
\* applyFilters: the value it passes to setFilteredRequests, one filter after the other
applyFilters(hv) ==
  LET search == toLowerCase(hv.searchTerm)
      bySearch == IF hv.searchTerm # <<>>
                    THEN SelectSeq(hv.requests,
                                   LAMBDA r : \/ includes(toLowerCase(r.title), search)
                                              \/ includes(toLowerCase(r.description), search)
                                              \/ includes(toLowerCase(r.submitter_name), search))
                    ELSE hv.requests
      byCategory == IF hv.filterCategory # ""
                      THEN SelectSeq(bySearch, LAMBDA r : r.category = hv.filterCategory)
                      ELSE bySearch
      byStatus == IF hv.filterStatus # ""
                    THEN SelectSeq(byCategory, LAMBDA r : r.status = hv.filterStatus)
                    ELSE byCategory
  IN IF hv.filterPriority # ""
       THEN SelectSeq(byStatus, LAMBDA r : r.priority = hv.filterPriority)
       ELSE byStatus

\* a state setter of HandlerView followed by the effect on
\* [requests, searchTerm, filterCategory, filterStatus, filterPriority]
Rendered(hv) ==
  /\ handlerView' = [hv EXCEPT !.filteredRequests = applyFilters(hv)]
  /\ UNCHANGED <<loads, signup>>
  /\ UNCHANGED <<session, user, userRole, loading, pendingGetSession, lookups, form, panel,
                 analysis, viewRequests>>
  /\ UNCHANGED dbVars

\* HandlerView.loadRequests: the rows, newest first; if (!error && data) setRequests(data)
HandlerView_loadRequests ==
  /\ handlerView.mounted
  /\ handlerView.requests # OrderByCreatedAtDesc(HandlerLoadRequests(user))
  /\ Rendered([handlerView EXCEPT !.requests = OrderByCreatedAtDesc(HandlerLoadRequests(user))])

\* onChange={(e) => setSearchTerm(e.target.value)}
setSearchTerm(term) ==
  /\ handlerView.mounted
  /\ handlerView.searchTerm # term
  /\ Rendered([handlerView EXCEPT !.searchTerm = term])

\* onChange={(e) => setFilterCategory(e.target.value)}
setFilterCategory(category) ==
  /\ handlerView.mounted
  /\ handlerView.filterCategory # category
  /\ Rendered([handlerView EXCEPT !.filterCategory = category])

\* onChange={(e) => setFilterStatus(e.target.value)}
setFilterStatus(status) ==
  /\ handlerView.mounted
  /\ handlerView.filterStatus # status
  /\ Rendered([handlerView EXCEPT !.filterStatus = status])

\* onChange={(e) => setFilterPriority(e.target.value)}
setFilterPriority(priority) ==
  /\ handlerView.mounted
  /\ handlerView.filterPriority # priority
  /\ Rendered([handlerView EXCEPT !.filterPriority = priority])

\* clearFilters
clearFilters ==
  /\ handlerView.mounted
  /\ Rendered([handlerView EXCEPT !.searchTerm = <<>>, !.filterCategory = "",
                                  !.filterStatus = "", !.filterPriority = ""])

\* a stored request with the columns the filters read; the texts are character sequences
FilterRow(id, title, description, submitter_name, category, status, priority) ==
  [RequestRow(id, "u2", status, id - 1, id - 1, NULL)
     EXCEPT !.title = title, !.description = description, !.submitter_name = submitter_name,
            !.category = category, !.priority = priority]

\* 'PC' / 'off' by Anna, 'Lamp' / 'pc room' by Bob, 'Door' / 'jam' by ann
FilterRows ==
  {FilterRow(1, <<"P", "C">>, <<"o", "f", "f">>, <<"A", "n", "n", "a">>,
             "IT and Technical Support", "Received", "High"),
   FilterRow(2, <<"L", "a", "m", "p">>, <<"p", "c", " ", "r", "o", "o", "m">>, <<"B", "o", "b">>,
             "Facilities and Maintenance", "In Progress", "High"),
   FilterRow(3, <<"D", "o", "o", "r">>, <<"j", "a", "m">>, <<"a", "n", "n">>,
             "Facilities and Maintenance", "Received", "Low")}

\* what the handler types and selects: '', 'pc', 'ANN', 'x'; an option or 'All ...'
SearchTerms == {<<>>, <<"p", "c">>, <<"A", "N", "N">>, <<"x">>}
FilterCategories == {"", "IT and Technical Support", "Facilities and Maintenance", "Other"}
FilterStatuses == {""} \cup STATUSES
FilterPriorities == {"", "High", "Low"}

\* three requests are stored; handler u1 has just mounted HandlerView
InitFilter ==
  /\ requests = FilterRows
  /\ request_comments = {}
  /\ user_roles = {RoleRow("u1", "handler"), RoleRow("u2", "submitter")}
  /\ now = 2
  /\ nextRequestId = 4
  /\ nextCommentId = 1
  /\ session = "u1"
  /\ user = "u1"
  /\ userRole = "handler"
  /\ loading = FALSE
  /\ pendingGetSession = FALSE
  /\ lookups = <<>>
  /\ form = NoForm
  /\ panel = [u \in Users |-> NoPanel]
  /\ analysis = NoAnalysis
  /\ viewRequests = [u \in Users |-> {}]
  /\ loads = EmptyBag
  /\ handlerView = [mounted |-> TRUE, requests |-> <<>>, filteredRequests |-> <<>>,
                    searchTerm |-> <<>>, filterCategory |-> "", filterStatus |-> "",
                    filterPriority |-> ""]
  /\ signup = NoSignUp

NextFilter ==
  \/ HandlerView_loadRequests
  \/ \E term \in SearchTerms : setSearchTerm(term)
  \/ \E category \in FilterCategories : setFilterCategory(category)
  \/ \E status \in FilterStatuses : setFilterStatus(status)
  \/ \E priority \in FilterPriorities : setFilterPriority(priority)
  \/ clearFilters

SpecFilter == InitFilter /\ [][NextFilter]_vars

\* ---- what the claims speak of, read off the tables directly ----
HoldsHandlerRow(u) == RoleRow(u, "handler") \in user_roles

HoldsNoRoleRow(u) == \A ur \in user_roles : ur.user_id # u

RolesOf(u, table) == {ur \in table : ur.user_id = u}

\* C1: every request has resolved_at non-null if and only if its status is 'Resolved'
C1_ResolvedAtIffResolved ==
  \A r \in requests : (r.resolved_at # NULL) <=> (r.status = "Resolved")

\* C2: once a user has a role row, no statement changes the set of roles the user holds
C2_RolesFixedAfterFirstGrant ==
  [][\A u \in Users :
       RolesOf(u, user_roles) # {} => RolesOf(u, user_roles') = RolesOf(u, user_roles)]_vars

\* C3: a select on requests returns a row if and only if the caller submitted it or the
\* caller holds a handler role row; without a handler row a caller sees only their own rows
C3_RequestVisibility ==
  \A uid \in Users :
    /\ SelectRequests(uid) =
         {r \in requests : r.submitter_id = uid \/ HoldsHandlerRow(uid)}
    /\ ~HoldsHandlerRow(uid) => \A r \in SelectRequests(uid) : r.submitter_id = uid

\* a submitter-role caller is shown nothing of a request that its role-less submitter sees
C3_Witness ==
  \E r \in requests, uid \in Users :
    /\ uid # r.submitter_id
    /\ RolesOf(uid, user_roles) = {RoleRow(uid, "submitter")}
    /\ HoldsNoRoleRow(r.submitter_id)
    /\ r \notin SelectRequests(uid)
    /\ r \in SelectRequests(r.submitter_id)

\* C4: an update or a delete of a stored request writes the row if and only if the caller
\* holds a handler role row, whoever submitted the request
C4_OnlyHandlersUpdateAndDelete ==
  \A caller \in Users, r \in requests :
    /\ \A patch \in SqlPatches :
         /\ UpdateRequestWritten(caller, r.id, patch) = {r} <=> HoldsHandlerRow(caller)
         /\ ~HoldsHandlerRow(caller) => RequestsAfterUpdate(caller, r.id, patch) = requests
         /\ HoldsHandlerRow(caller) =>
              RequestsAfterUpdate(caller, r.id, patch) =
                (requests \ {r}) \cup {UpdatedRow(r, patch)}
    /\ DeleteRequestTargets(caller, r.id) = {r} <=> HoldsHandlerRow(caller)

\* a handler has deleted the request of a submitter who holds no handler row
C4_Witness ==
  /\ requests = {}
  /\ nextRequestId > 1
  /\ \E h \in Users, u \in Users : HoldsHandlerRow(h) /\ ~HoldsHandlerRow(u)

\* C5: an insert into requests writes the row if and only if its submitter_id is the
\* caller, whatever roles the caller holds
C5_InsertOnlyAsOneself ==
  \A caller \in Users, submitter_id \in Users, status \in STATUSES :
    LET row == RequestRow(nextRequestId, submitter_id, status, now, now, NULL)
    IN /\ InsertRequestAccepted(caller, row) <=> submitter_id = caller
       /\ row \in RequestsAfterInsert(caller, row) <=> submitter_id = caller

\* a caller without any role row has created a request, and it carries the caller's identity
C5_Witness ==
  /\ user_roles = {}
  /\ requests # {}
  /\ nextRequestId > 1

\* C6: an insert into request_comments on a stored request is accepted exactly when
\* user_id is the caller and the caller submitted the parent request or holds a handler
\* role row; it is rejected in every other case
C6_CommentInsertPolicy ==
  \A caller \in Users, user_id \in Users :
    /\ \A r \in requests :
         LET row == CommentRow(nextCommentId, r.id, user_id, now)
             allowed == user_id = caller /\ (r.submitter_id = caller \/ HoldsHandlerRow(caller))
         IN /\ InsertCommentAccepted(caller, row) <=> allowed
            /\ row \in CommentsAfterInsert(caller, row) <=> allowed
    /\ \A request_id \in RequestIds :
         LET row == CommentRow(nextCommentId, request_id, user_id, now)
         IN (\/ user_id # caller
             \/ /\ ~HoldsHandlerRow(caller)
                /\ \A r \in requests : r.id = request_id => r.submitter_id # caller)
              => CommentsAfterInsert(caller, row) = request_comments

\* a handler who did not submit the request has commented on it
C6_Witness ==
  \E c \in request_comments, r \in requests :
    /\ c.request_id = r.id
    /\ c.user_id # r.submitter_id
    /\ HoldsHandlerRow(c.user_id)
    /\ ~HoldsHandlerRow(r.submitter_id)

\* C7: a caller can select a comment if and only if the caller can select its parent request
C7_CommentVisibilityMirrorsRequests ==
  \A uid \in Users, c \in request_comments :
    c \in SelectComments(uid) <=> \E r \in SelectRequests(uid) : r.id = c.request_id

\* a comment on a request: its submitter sees it, a submitter-role caller who did not
\* submit the request does not
C7_Witness ==
  \E c \in request_comments, uid \in Users :
    /\ c \notin SelectComments(uid)
    /\ RoleRow(uid, "submitter") \in user_roles
    /\ \E r \in requests :
         /\ r.id = c.request_id
         /\ r.submitter_id # uid
         /\ c \in SelectComments(r.submitter_id)

\* C8: on user_roles a caller inserts only rows of their own identity and selects only
\* (and all) rows of their own identity
C8_OwnRoleRowsOnly ==
  \A caller \in Users :
    /\ \A user_id \in Users, role \in RoleInputs :
         LET row == RoleRow(user_id, role)
         IN /\ InsertRoleAccepted(caller, row) => user_id = caller
            /\ \A ur \in RolesAfterInsert(caller, row) \ user_roles : ur.user_id = caller
    /\ SelectUserRoles(caller) = RolesOf(caller, user_roles)

\* two users hold role rows, one of them a handler row
C8_Witness ==
  \E u \in Users, v \in Users :
    /\ u # v
    /\ RolesOf(u, user_roles) # {}
    /\ HoldsHandlerRow(v)

\* C9: a stored comment never changes, it disappears only together with its parent request,
\* a deleted request takes all its comments with it, and every comment has a parent request
C9_CommentsAppendOnly ==
  [][/\ \A c \in request_comments :
          \/ c \in request_comments'
          \/ \A r \in requests' : r.id # c.request_id
     /\ \A c \in request_comments, d \in request_comments' : d.id = c.id => d = c
     /\ \A c \in request_comments' : \E r \in requests' : r.id = c.request_id]_vars

\* a request that had a comment has been deleted, and the comment went with it
C9_Witness ==
  /\ nextCommentId > 1
  /\ request_comments = {}
  /\ requests = {}

\* C10: a statement whose policy predicate fails leaves requests, request_comments and
\* user_roles exactly as they were
C10_RejectedStatementsWriteNothing ==
  \A caller \in Users :
    /\ \A submitter_id \in Users, status \in STATUSES :
         LET row == RequestRow(nextRequestId, submitter_id, status, now, now, NULL)
         IN submitter_id # caller => RequestsAfterInsert(caller, row) = requests
    /\ \A id \in RequestIds :
         ~HoldsHandlerRow(caller) =>
           /\ \A patch \in SqlPatches : RequestsAfterUpdate(caller, id, patch) = requests
           /\ requests \ DeleteRequestTargets(caller, id) = requests
           /\ CommentsAfterCascade(DeleteRequestTargets(caller, id)) = request_comments
    /\ \A request_id \in RequestIds, user_id \in Users :
         LET row == CommentRow(nextCommentId, request_id, user_id, now)
         IN (\/ user_id # caller
             \/ /\ ~HoldsHandlerRow(caller)
                /\ \A r \in requests : r.id = request_id => r.submitter_id # caller)
              => CommentsAfterInsert(caller, row) = request_comments
    /\ \A user_id \in Users, role \in RoleInputs :
         user_id # caller => RolesAfterInsert(caller, RoleRow(user_id, role)) = user_roles

\* all three tables hold rows while a caller without the handler role is refused
C10_Witness ==
  /\ requests # {}
  /\ request_comments # {}
  /\ user_roles # {}
  /\ \E u \in Users : ~HoldsHandlerRow(u)

\* C11: for every update of a request, whatever the statement writes to resolved_at: a
\* status that was not 'Resolved' and becomes 'Resolved' stamps resolved_at with the time
\* of the update, and a new status other than 'Resolved' clears resolved_at
C11_ResolvedAtFollowsStatus ==
  \A caller \in Users, r \in requests, patch \in TimePatches :
    HoldsHandlerRow(caller) =>
      \E n \in RequestsAfterUpdate(caller, r.id, patch) :
        /\ n.id = r.id
        /\ n.status = (IF patch.status = UNSET THEN r.status ELSE patch.status)
        /\ (r.status # "Resolved" /\ n.status = "Resolved") => n.resolved_at = now
        /\ n.status # "Resolved" => n.resolved_at = NULL

\* a stored request that is not resolved, at a time when a handler's update to 'Resolved'
\* that writes resolved_at = 0 itself is stamped with the later time of the update
C11_Witness ==
  \E r \in requests, h \in Users :
    /\ HoldsHandlerRow(h)
    /\ r.status # "Resolved"
    /\ r.updated_at < now
    /\ \E n \in RequestsAfterUpdate(h, r.id, [NoPatch EXCEPT !.status = "Resolved",
                                                              !.resolved_at = 0]) :
         n.id = r.id /\ n.resolved_at = now /\ now # 0

\* C12: updated_at of a request never decreases, and every update sets it to the time of
\* the update whatever the statement writes to it
C12_UpdatedAtMonotonic ==
  [][\A r \in requests, n \in requests' : n.id = r.id => n.updated_at >= r.updated_at]_vars

\* C13: role resolution fails open: a role lookup that returns no row for the signed-in
\* user sets userRole to 'submitter'; AppContent renders the handler view only when
\* userRole is exactly 'handler', and the submitter view for a signed-in user otherwise,
\* also while userRole is still null.
C13_RoleResolutionFailsOpen ==
  [][/\ \A i \in DOMAIN lookups :
          (lookups[i].stage = "answered" /\ lookups[i].rows = 0 /\ lookups'[i].stage = "done")
            => userRole' = "submitter"
     /\ (AppContent = "HandlerView")' <=> (~loading' /\ user' # NoUser /\ userRole' = "handler")
     /\ (AppContent = "SubmitterView")' <=> (~loading' /\ user' # NoUser /\ userRole' # "handler")
    ]_vars

C13_Witness ==
  /\ \E i \in DOMAIN lookups :
       lookups[i].stage = "done" /\ lookups[i].rows = 0 /\ lookups[i].userId = user
  /\ userRole = "submitter"
  /\ AppContent = "SubmitterView"
  /\ HoldsNoRoleRow(user)

\* kw occurs in text as a contiguous substring
Occurs(kw, text) ==
  \E i \in 0..(Len(text) - Len(kw)) : SubSeq(text, i + 1, i + Len(kw)) = kw

\* the lower-cased text the classifier looks at: title, one space, description
ClassifiedText == toLowerCase(form.title \o <<" ">> \o form.description)

\* C15: the category the classifier returns is that of the first rule, in the fixed
\* order IT, Facilities, Equipment, Safety, HR, one of whose keywords occurs as a
\* substring of the lower-cased title and description, and 'Other' when no rule has one;
\* a text with both 'computer' and 'fire' is 'IT and Technical Support'.
C15_FirstMatchingCategoryRule ==
  LET rules == <<[keywords |-> IT_KEYWORDS, category |-> "IT and Technical Support"],
                 [keywords |-> FACILITIES_KEYWORDS, category |-> "Facilities and Maintenance"],
                 [keywords |-> EQUIPMENT_KEYWORDS, category |-> "Equipment and Furniture"],
                 [keywords |-> SAFETY_KEYWORDS, category |-> "Safety and Fire Protection"],
                 [keywords |-> HR_KEYWORDS, category |-> "HR and Staff Matters"]>>
      hits == {k \in 1..5 : \E kw \in rules[k].keywords : Occurs(kw, ClassifiedText)}
  IN analysis # NoAnalysis =>
       /\ analysis.category =
            IF hits = {} THEN "Other"
            ELSE rules[CHOOSE k \in hits : \A m \in hits : k <= m].category
       /\ (Occurs(<<"c", "o", "m", "p", "u", "t", "e", "r">>, ClassifiedText) /\ Occurs(<<"f", "i", "r", "e">>, ClassifiedText))
            => analysis.category = "IT and Technical Support"

C15_Witness ==
  /\ analysis.category = "IT and Technical Support"
  /\ Occurs(<<"c", "o", "m", "p", "u", "t", "e", "r">>, ClassifiedText)
  /\ Occurs(<<"f", "i", "r", "e">>, ClassifiedText)

\* C16: the priority follows its own ordered list Critical, High, Low with the fallback
\* 'Medium'; it is a function of the text alone, not of the category, and any Critical
\* keyword such as 'broken' gives 'Critical' even when High or Low keywords occur too.
C16_FirstMatchingPriorityRule ==
  LET rules == <<[keywords |-> CRITICAL_KEYWORDS, priority |-> "Critical"],
                 [keywords |-> HIGH_KEYWORDS, priority |-> "High"],
                 [keywords |-> LOW_KEYWORDS, priority |-> "Low"]>>
      hits == {k \in 1..3 : \E kw \in rules[k].keywords : Occurs(kw, ClassifiedText)}
  IN analysis # NoAnalysis =>
       /\ analysis.priority =
            IF hits = {} THEN "Medium"
            ELSE rules[CHOOSE k \in hits : \A m \in hits : k <= m].priority
       /\ Occurs(<<"b", "r", "o", "k", "e", "n">>, ClassifiedText) => analysis.priority = "Critical"

C16_Witness ==
  /\ analysis.priority = "Critical"
  /\ analysis.category = "IT and Technical Support"
  /\ Occurs(<<"b", "r", "o", "k", "e", "n">>, ClassifiedText)
  /\ \E kw \in HIGH_KEYWORDS : Occurs(kw, ClassifiedText)

\* C17: the classifier is total: it returns a category, a priority, a unit and a
\* response for every title and description, and for an empty or whitespace-only text
\* and any text in which no keyword occurs these are 'Other', 'Medium' and
\* 'General Support'.
C17_TotalWithFallbacks ==
  LET keywords == IT_KEYWORDS \cup FACILITIES_KEYWORDS \cup EQUIPMENT_KEYWORDS
                    \cup SAFETY_KEYWORDS \cup HR_KEYWORDS
                    \cup CRITICAL_KEYWORDS \cup HIGH_KEYWORDS \cup LOW_KEYWORDS
      blank == \A i \in 1..Len(ClassifiedText) : ClassifiedText[i] = " "
  IN analysis # NoAnalysis =>
       /\ analysis.category \in CATEGORIES
       /\ analysis.priority \in PRIORITIES
       /\ analysis.assignedUnit # ""
       /\ Len(analysis.aiResponse) = 3
       /\ (blank \/ \A kw \in keywords : ~Occurs(kw, ClassifiedText)) =>
            /\ analysis.category = "Other"
            /\ analysis.priority = "Medium"
            /\ analysis.assignedUnit = "General Support"

C17_Witness ==
  /\ form.title = <<" ">>
  /\ form.description = <<>>
  /\ analysis.category = "Other"
  /\ analysis.priority = "Medium"
  /\ analysis.assignedUnit = "General Support"

\* C18: the assigned unit is the unit of the category returned in the same result
\* (IT -> IT Division, Facilities -> Technical Division, Equipment -> Procurement
\* Division, Safety -> Safety Division, HR -> HR Division, Other -> General Support) and
\* the generated response is the template of that category with the title interpolated.
C18_UnitAndResponseFollowCategory ==
  analysis # NoAnalysis =>
    /\ analysis.assignedUnit =
         CASE analysis.category = "IT and Technical Support" -> "IT Division"
           [] analysis.category = "Facilities and Maintenance" -> "Technical Division"
           [] analysis.category = "Equipment and Furniture" -> "Procurement Division"
           [] analysis.category = "Safety and Fire Protection" -> "Safety Division"
           [] analysis.category = "HR and Staff Matters" -> "HR Division"
           [] analysis.category = "Other" -> "General Support"
    /\ analysis.aiResponse =
         <<RESPONSE_HEAD, form.title, RESPONSE_TAILS[analysis.category]>>

C18_Witness ==
  /\ analysis.category = "HR and Staff Matters"
  /\ analysis.assignedUnit = "HR Division"
  /\ analysis.aiResponse[2] = form.title
  /\ form.title # <<>>

\* the row the form's last submission stored, while the form still shows what was sent
SubmittedRows == {r \in requests : r.id = nextRequestId - 1}

\* C14: for every title and description, a non-empty manual category chosen in the
\* creation form is the stored category and a non-empty manual priority is the stored
\* priority, whatever the classifier returns; the classifier's value is stored only for
\* a field whose override is empty.
C14_ManualOverrideWins ==
  (form.open /\ form.pc = "answered" /\ ~form.insertError) =>
    /\ SubmittedRows # {}
    /\ \A r \in SubmittedRows :
         /\ r.title = form.title /\ r.description = form.description
         /\ r.category = IF form.manualCategory # "" THEN form.manualCategory
                         ELSE analyzeRequest(form.title, form.description).category
         /\ r.priority = IF form.manualPriority # "" THEN form.manualPriority
                         ELSE analyzeRequest(form.title, form.description).priority

C14_Witness ==
  /\ form.open /\ form.pc = "answered" /\ ~form.insertError
  /\ form.manualCategory = "Other" /\ form.manualPriority = ""
  /\ analysis.category = "IT and Technical Support" /\ analysis.priority = "Critical"
  /\ \E r \in SubmittedRows : r.category = "Other" /\ r.priority = "Critical"

\* handleSubmit returns from a successful insert and the list is read back
SubmitReturns == form.open /\ form.pc = "answered" /\ ~form.insertError /\ ~form'.open

\* the nine columns handleSubmit supplies come back as they were sent
ReadBackAsSent(r, payload) ==
  /\ r.title = payload.title
  /\ r.description = payload.description
  /\ r.category = payload.category
  /\ r.priority = payload.priority
  /\ r.status = payload.status
  /\ r.submitter_id = payload.submitter_id
  /\ r.submitter_name = payload.submitter_name
  /\ r.assigned_unit = payload.assigned_unit
  /\ r.ai_response = payload.ai_response

\* C19 as stated: after a submitter creates a request, reading it back as the same
\* submitter before any other operation returns a row whose title, description,
\* category, priority, status, submitter_id, submitter_name, assigned_unit and
\* ai_response equal the inserted values, and only id and the timestamps are assigned
\* by the server.
C19_RoundTripOnlyIdAndTimestampsAssigned ==
  [][SubmitReturns =>
       \E r \in viewRequests'[user] :
         /\ r.id = nextRequestId - 1
         /\ ReadBackAsSent(r, form.payload[1])
         /\ (DOMAIN r \ DOMAIN form.payload[1])
              \subseteq {"id", "created_at", "updated_at", "resolved_at", "deadline"}
    ]_vars

\* C19 amended: the nine supplied columns are read back as inserted; the server assigns
\* id, the timestamps created_at, updated_at (now()), resolved_at and deadline (null),
\* and also assigned_handler (its default, the empty string).
C19_RoundTripWithServerDefaults ==
  [][SubmitReturns =>
       \E r \in viewRequests'[user] :
         /\ r.id = nextRequestId - 1
         /\ ReadBackAsSent(r, form.payload[1])
         /\ (DOMAIN r \ DOMAIN form.payload[1])
              = {"id", "created_at", "updated_at", "resolved_at", "deadline", "assigned_handler"}
         /\ r.created_at = now /\ r.updated_at = now
         /\ r.resolved_at = NULL /\ r.deadline = NULL
         /\ r.assigned_handler = ""
    ]_vars

C19_Witness ==
  /\ ~form.open
  /\ \E r \in viewRequests[user] :
       /\ r \in requests
       /\ r.submitter_id = user
       /\ r.ai_response = generateResponse(r.title, "IT and Technical Support")
       /\ r.category = "HR and Staff Matters"
       /\ r.assigned_handler = ""

\* the database has just executed the update of h's save
SaveApplied(h) == panel[h].open /\ panel[h].pc = "sent" /\ panel'[h].pc = "answered"

\* the six columns of a save are those of the edited copy
SixColumnsFrom(n, edited) ==
  /\ n.status = edited.status
  /\ n.priority = edited.priority
  /\ n.category = edited.category
  /\ n.assigned_unit = edited.assigned_unit
  /\ n.assigned_handler = edited.assigned_handler
  /\ n.deadline = edited.deadline

\* C20: when two handlers save edits to the same request concurrently, each save is one
\* atomic update that writes status, priority, category, assigned_unit, assigned_handler
\* and deadline from that handler's edited copy; neither save is rejected or reported as
\* a conflict; the stored row changes only when a save is applied, so after both are
\* complete the six columns hold the values of the save applied last.
C20_LastSaveWins ==
  [][/\ \A h \in Users :
          SaveApplied(h) =>
            /\ ~panel'[h].updateError
            /\ \E n \in requests' :
                 /\ n.id = panel[h].request.id
                 /\ SixColumnsFrom(n, panel[h].editedRequest)
            /\ Cardinality(requests') = Cardinality(requests)
     /\ requests' # requests => \E h \in Users : SaveApplied(h)
     /\ \A h \in Users :
          (panel[h].open /\ panel[h].pc = "answered" /\ panel'[h].pc = "idle")
            => ~panel'[h].editMode /\ ~panel'[h].loading
    ]_vars

C20_Witness ==
  /\ \A h \in Users : panel[h].open /\ panel[h].pc = "answered" /\ ~panel[h].updateError
  /\ panel["u1"].request = panel["u2"].request
  /\ panel["u1"].patch[1].status # panel["u2"].patch[1].status
  /\ panel["u1"].patch[1].assigned_handler # panel["u2"].patch[1].assigned_handler
  /\ panel["u1"].patch[1].category # panel["u2"].patch[1].category
  /\ \E r \in requests, h \in Users :
       /\ SixColumnsFrom(r, panel[h].editedRequest)
       /\ r.assigned_handler # panel[h].request.assigned_handler

\* C23: under every interleaving of auth-state events with role lookups in flight,
\* whenever AppContent renders a role view it routes on the role of the signed-in user:
\* HandlerView is never rendered for a signed-in user who holds no handler role row,
\* also when a lookup started for a previously signed-in user completes late.
C23_HandlerViewOnlyForHandlers ==
  AppContent = "HandlerView" => HoldsHandlerRow(user)

\* the i-th lookup found a handler row: it is the only row, or one of two
LookupFoundHandlerRow(i) == lookups[i].data = "handler" \/ lookups[i].rows = 2

\* C24: for every user who holds a handler role row, alone or together with a submitter
\* row, the lookup at sign-in resolves userRole to 'handler', and once it has completed
\* AppContent routes the user to HandlerView.
C24_HandlerRowResolvesToHandler ==
  [][\A i \in DOMAIN lookups :
       (/\ lookups[i].stage = "answered"
        /\ lookups'[i].stage = "done"
        /\ LookupFoundHandlerRow(i)
        /\ user = lookups[i].userId)
         => (userRole' = "handler" /\ (AppContent = "HandlerView")')]_vars

\* C25: for every request created by handleSubmit, with or without a manual category,
\* the stored assigned_unit is the unit of the stored category and the stored
\* ai_response is the acknowledgment template of the stored category.
C25_UnitAndResponseFollowStoredCategory ==
  \A r \in SubmittedRows :
    /\ r.assigned_unit = getAssignedUnit(r.category)
    /\ r.ai_response = generateResponse(r.title, r.category)

\* the database executes the update h's panel has sent
SaveExecutes(h) == panel[h].open /\ panel[h].pc = "sent" /\ panel'[h].pc = "answered"

\* the columns of a request no save may change
FrameColumns(r) ==
  <<r.id, r.title, r.description, r.submitter_id, r.submitter_name, r.ai_response, r.created_at>>

\* C26: a handler's save through handleUpdateRequest changes, on the one request whose id
\* it targets, only status, priority, category, assigned_unit, assigned_handler and
\* deadline plus the trigger-maintained updated_at and resolved_at; that request's other
\* columns, every other request row, and all comments and role rows are left unchanged.
C26_SaveChangesOnlyTriageColumns ==
  [][\A h \in Users :
       SaveExecutes(h) =>
         /\ {n.id : n \in requests'} = {r.id : r \in requests}
         /\ Cardinality(requests') = Cardinality(requests)
         /\ \A r \in requests :
              IF r.id = panel[h].request.id
                THEN \E n \in requests' : FrameColumns(n) = FrameColumns(r)
                ELSE r \in requests'
         /\ request_comments' = request_comments
         /\ user_roles' = user_roles]_vars

C26_Witness ==
  \E h \in Users :
    /\ panel[h].open /\ panel[h].pc = "answered"
    /\ \E r \in requests, o \in requests :
         /\ r.id = panel[h].request.id
         /\ o.id # r.id
         /\ r.status = "Resolved" /\ r.resolved_at # NULL
         /\ r.priority = "High" /\ r.assigned_handler # ""
         /\ o.status # r.status
    /\ request_comments # {}

\* what the detail panel shows of a request besides its texts
ShownColumns(r) == <<r.status, r.priority, r.category, r.assigned_unit, r.assigned_handler>>

\* C27: after a handler's save in RequestDetails has succeeded and the parent view's list
\* reload (onUpdate) has completed, the status, priority, category, assigned unit and
\* handler shown by the still-open detail panel equal the values of the stored row.
C27_PanelShowsStoredRowAfterSave ==
  [][\A h \in Users :
       (/\ panel[h].open /\ panel[h].pc = "answered" /\ ~panel[h].updateError
        /\ panel'[h].open /\ panel'[h].pc = "idle")
         => \A r \in requests' :
              r.id = panel'[h].request.id => ShownColumns(panel'[h].request) = ShownColumns(r)]_vars

\* C21: live views are eventually consistent: once notifications have stopped and every
\* re-query in flight has completed, in whatever order the responses arrived, the list
\* held by each view equals the result of its query over the final database state.
C21_ListsEqualQueryWhenQuiet ==
  loads = EmptyBag => \A u \in Users : viewRequests[u] = ViewQuery(u)

\* the re-query e returns in this step
LoadReturns(e) == BagIn(e, loads) /\ e.stage = "answered" /\ loads' = Without(e)

\* handleSubmit returns in this step after a failed insert
SubmitFails == form.open /\ form.pc = "answered" /\ form.insertError /\ form' # form

\* handleUpdateRequest returns in h's panel in this step after a failed update
SaveFails(h) ==
  panel[h].open /\ panel[h].pc = "answered" /\ panel[h].updateError /\ panel'[h] # panel[h]

\* C22: a failed user action does not corrupt the view state: when a list re-query fails
\* the list held before is kept; when the insert of handleSubmit fails the form stays
\* open with its entered values, an error message is set, onSuccess and onClose are not
\* called and loading returns to false; when the update of handleUpdateRequest fails
\* edit mode and the edited values are kept and loading returns to false.
C22_FailuresKeepViewState ==
  [][/\ \A e \in BagToSet(loads) :
          (LoadReturns(e) /\ e.error) => viewRequests' = viewRequests
     /\ SubmitFails =>
          /\ form'.open
          /\ form'.title = form.title /\ form'.description = form.description
          /\ form'.manualCategory = form.manualCategory
          /\ form'.manualPriority = form.manualPriority
          /\ form'.error # ""
          /\ ~form'.loading
          /\ viewRequests' = viewRequests
     /\ \A h \in Users :
          SaveFails(h) =>
            /\ panel'[h].open
            /\ panel'[h].editMode
            /\ panel'[h].editedRequest = panel[h].editedRequest
            /\ ~panel'[h].loading
            /\ viewRequests' = viewRequests
    ]_vars

C22_Witness ==
  /\ form.open /\ form.pc = "idle" /\ form.error # "" /\ form.title # <<>> /\ ~form.loading
  /\ \E e \in BagToSet(loads) :
       e.stage = "answered" /\ e.error /\ viewRequests[e.view] # {}
  /\ \E h \in Users :
       /\ panel[h].open /\ panel[h].pc = "answered" /\ panel[h].updateError
       /\ panel[h].editedRequest # panel[h].request

\* C28: from an empty requests table and with the application's own operations only,
\* every stored request has a status of STATUSES and has resolved_at non-null if and only
\* if its status is Resolved; every request is created with status Received and null
\* resolved_at.
C28_AppKeepsStatusAndResolvedAt ==
  /\ [](\A r \in requests :
          /\ r.status \in STATUSES
          /\ r.resolved_at # NULL <=> r.status = "Resolved")
  /\ [][\A n \in requests' :
          (\A r \in requests : r.id # n.id) =>
            (n.status = "Received" /\ n.resolved_at = NULL)]_vars

C28_Witness ==
  \E h \in Users, r \in requests :
    /\ panel[h].open
    /\ panel[h].request.id = r.id
    /\ panel[h].request.status = "Resolved" /\ panel[h].request.resolved_at # NULL
    /\ r.status = "In Progress" /\ r.resolved_at = NULL

\* C29: after signUp(email, password, name, role) has returned without throwing for a
\* newly created user, the user_roles row (that user, role) exists, so the user's next
\* role lookup resolves to the role chosen at signup.
C29_RoleRowExistsAfterSignUp ==
  signup.pc = "returned" =>
    /\ RoleRow(signup.user, signup.role) \in user_roles
    /\ RoleOrSubmitter(maybeSingle(RoleLookupRows(signup.user, signup.user)).data) = signup.role

\* the characters a and b are the same letter, whatever their case
SameLetter(a, b) == a = b \/ \E k \in 1..26 : {a, b} = {UPPER[k], LOWER[k]}

\* term is contained in text, letters compared without regard to case
ContainsIgnoringCase(text, term) ==
  \E i \in 1..(Len(text) - Len(term) + 1) :
    \A j \in 1..Len(term) : SameLetter(text[i + j - 1], term[j])

\* the row r satisfies every active filter of HandlerView at once
SatisfiesFilters(r) ==
  /\ \/ handlerView.searchTerm = <<>>
     \/ ContainsIgnoringCase(r.title, handlerView.searchTerm)
     \/ ContainsIgnoringCase(r.description, handlerView.searchTerm)
     \/ ContainsIgnoringCase(r.submitter_name, handlerView.searchTerm)
  /\ handlerView.filterCategory \in {"", r.category}
  /\ handlerView.filterStatus \in {"", r.status}
  /\ handlerView.filterPriority \in {"", r.priority}

\* clearFilters runs in this step
FiltersCleared ==
  /\ handlerView.mounted
  /\ handlerView'.requests = handlerView.requests
  /\ handlerView'.searchTerm = <<>> /\ handlerView'.filterCategory = ""
  /\ handlerView'.filterStatus = "" /\ handlerView'.filterPriority = ""

\* C30: in HandlerView, once the filters have been applied, filteredRequests is exactly
\* the sub-list of requests, in the same order, of the rows that satisfy every active
\* filter at once (the search term contained without regard to case in the title, the
\* description or the submitter's name; category, status and priority equal to the
\* selected value), an empty filter excluding nothing; after clearFilters,
\* filteredRequests equals requests.
C30_FilteredIsTheSubListOfMatches ==
  /\ [](handlerView.mounted =>
          handlerView.filteredRequests = SelectSeq(handlerView.requests, SatisfiesFilters))
  /\ [][FiltersCleared => handlerView'.filteredRequests = handlerView'.requests]_vars

C30_Witness ==
  /\ handlerView.mounted
  /\ handlerView.searchTerm = <<"p", "c">>
  /\ handlerView.filterPriority = "High"
  /\ Len(handlerView.requests) = 3
  /\ Len(handlerView.filteredRequests) = 2
  /\ handlerView.filteredRequests[1].title = <<"L", "a", "m", "p">>
  /\ handlerView.filteredRequests[2].title = <<"P", "C">>

====
